---------------------------- MODULE Spec2Model ----------------------------
(***************************************************************************)
(* A model of docopt.cpp: the usage parser, the option catalog, the argv   *)
(* parser, the normalisation pass (fix), the backtracking matcher and the  *)
(* driver docopt_parse / docopt.                                           *)
(*                                                                         *)
(* Strings are TLA+ strings (TLC evaluates Len, SubSeq and \o on them).    *)
(* Every std::shared_ptr<Pattern> is an index into an arena (a sequence of *)
(* node records), so that two holders of one pointer see one object: the   *)
(* usage tree lives in `nodes', the argv patterns and the leaves that      *)
(* single_match creates live in `heap'.                                    *)
(* An exception is a record [type, what]; a function that may throw        *)
(* returns it in its `err' field and its callers pass it on.               *)
(***************************************************************************)
EXTENDS Naturals, Integers, Sequences, FiniteSets, TLC

(***************************************************************************)
(* docopt_util.h                                                           *)
(***************************************************************************)
\* The character of str at position i (1-based); "" outside the string.
Char(str, i) == IF i >= 1 /\ i <= Len(str) THEN SubSeq(str, i, i) ELSE ""

starts_with(str, prefix) ==
    /\ Len(str) >= Len(prefix)
    /\ SubSeq(str, 1, Len(prefix)) = prefix

\* std::string::find of a one-character string from position `from' (1-based);
\* 0 stands for npos.
RECURSIVE find(_, _, _)
find(str, ch, from) ==
    IF from > Len(str) THEN 0
    ELSE IF Char(str, from) = ch THEN from
    ELSE find(str, ch, from + 1)

anySpace == {" ", "\t", "\r", "\n"}

RECURSIVE find_first_not_of(_, _, _)
find_first_not_of(str, set, from) ==
    IF from > Len(str) THEN 0
    ELSE IF Char(str, from) \notin set THEN from
    ELSE find_first_not_of(str, set, from + 1)

RECURSIVE find_first_of(_, _, _)
find_first_of(str, set, from) ==
    IF from > Len(str) THEN 0
    ELSE IF Char(str, from) \in set THEN from
    ELSE find_first_of(str, set, from + 1)

\* split(str, pos): the whitespace-separated words of str from position pos on.
RECURSIVE split(_, _)
split(str, pos) ==
    LET start == find_first_not_of(str, anySpace, pos) IN
    IF start = 0 THEN <<>>
    ELSE LET end == find_first_of(str, anySpace, start) IN
         IF end = 0 THEN << SubSeq(str, start, Len(str)) >>
         ELSE << SubSeq(str, start, end - 1) >> \o split(str, end)

\* partition(str, point) for a one-character point: <<before, point, after>>,
\* or <<str, "", "">> when point does not occur.
partition(str, point) ==
    LET i == find(str, point, 1) IN
    IF i = 0 THEN << str, "", "" >>
    ELSE << SubSeq(str, 1, i - 1), point, SubSeq(str, i + 1, Len(str)) >>

RECURSIVE join(_, _)
join(strs, delim) ==
    IF strs = <<>> THEN ""
    ELSE IF Len(strs) = 1 THEN strs[1]
    ELSE strs[1] \o delim \o join(Tail(strs), delim)

(***************************************************************************)
(* docopt_value.h: value                                                   *)
(***************************************************************************)
VEmpty == [kind |-> "Empty", b |-> FALSE, n |-> 0, s |-> "", l |-> <<>>]
VBool(b) == [VEmpty EXCEPT !.kind = "Bool", !.b = b]
VLong(n) == [VEmpty EXCEPT !.kind = "Long", !.n = n]
VString(s) == [VEmpty EXCEPT !.kind = "String", !.s = s]
VStringList(l) == [VEmpty EXCEPT !.kind = "StringList", !.l = l]

isBool(v) == v.kind = "Bool"
isString(v) == v.kind = "String"
isLong(v) == v.kind = "Long"
isStringList(v) == v.kind = "StringList"
\* explicit operator bool
hasContents(v) == v.kind # "Empty"

(***************************************************************************)
(* docopt_private.h: the pattern classes.  One record shape serves every   *)
(* class; `type' is the dynamic type.                                      *)
(***************************************************************************)
LeafTypes == {"Argument", "Command", "Option"}
BranchTypes == {"Required", "Optional", "OptionsShortcut", "OneOrMore", "Either"}

LeafPattern(type, name, v) ==
    [type |-> type, name |-> name, value |-> v,
     fShortOption |-> "", fLongOption |-> "", fArgcount |-> 0,
     fChildren |-> <<>>]

Argument(name, v) == LeafPattern("Argument", name, v)

\* Command(name, v = value{false})
Command(name, v) == LeafPattern("Command", name, v)

\* A faulty variant of Option: the constructor keeps false for an option that
\* takes an argument.
Option_KeepsFalse(shortOption, longOption, argcount, v) ==
    [type |-> "Option",
     name |-> IF longOption = "" THEN shortOption ELSE longOption,
     value |-> v,
     fShortOption |-> shortOption, fLongOption |-> longOption,
     fArgcount |-> argcount, fChildren |-> <<>>]

\* Option(shortOption, longOption, argcount = 0, v = value{false})
Option(shortOption, longOption, argcount, v) ==
    [type |-> "Option",
     name |-> IF longOption = "" THEN shortOption ELSE longOption,
     value |-> IF argcount # 0 /\ isBool(v) /\ ~v.b THEN VEmpty ELSE v,
     fShortOption |-> shortOption, fLongOption |-> longOption,
     fArgcount |-> argcount, fChildren |-> <<>>]

BranchPattern(type, children) ==
    [type |-> type, name |-> "", value |-> VEmpty,
     fShortOption |-> "", fLongOption |-> "", fArgcount |-> 0,
     fChildren |-> children]

isLeaf(p) == p.type \in LeafTypes
isBranch(p) == p.type \in BranchTypes
\* dynamic_cast<Argument const*>: Command derives from Argument.
isArgument(p) == p.type \in {"Argument", "Command"}

\* std::make_shared: the new object is the last of the arena.
Alloc(mem, p) == Append(mem, p)
New(mem) == Len(mem) + 1

(***************************************************************************)
(* Exceptions                                                              *)
(***************************************************************************)
NoError == [type |-> "none", what |-> ""]
Throw(type, what) == [type |-> type, what |-> what]
Thrown(e) == e.type # "none"

(***************************************************************************)
(* Option::parse.  The description is given as the text before the first   *)
(* double space (spec) and the outcome of the search for [default: ...] in *)
(* the rest (hasDefault, default).                                         *)
(***************************************************************************)
OptionDelims == {",", "=", " "}

\* The pieces that the regex (--|-)?(.*?)([,= ]|$) walks over.
RECURSIVE OptionPieces(_, _)
OptionPieces(str, from) ==
    IF from > Len(str) THEN <<>>
    ELSE LET end == find_first_of(str, OptionDelims, from) IN
         IF end = 0 THEN << SubSeq(str, from, Len(str)) >>
         ELSE << SubSeq(str, from, end - 1) >> \o OptionPieces(str, end + 1)

RECURSIVE OptionParseLoop(_, _)
OptionParseLoop(pieces, acc) ==
    IF pieces = <<>> THEN acc
    ELSE LET m == Head(pieces) IN
         OptionParseLoop(Tail(pieces),
            IF starts_with(m, "--") THEN [acc EXCEPT !.longOption = m]
            ELSE IF starts_with(m, "-") THEN [acc EXCEPT !.shortOption = m]
            ELSE IF Len(m) > 0 THEN [acc EXCEPT !.argcount = 1]
            ELSE acc)

Option_parse(d) ==
    LET r == OptionParseLoop(OptionPieces(d.spec, 1),
                 [shortOption |-> "", longOption |-> "", argcount |-> 0])
        val == IF r.argcount # 0 /\ d.hasDefault
               THEN VString(d.default) ELSE VBool(FALSE)
    IN Option(r.shortOption, r.longOption, r.argcount, val)

(***************************************************************************)
(* class Tokens.  fIndex counts the tokens popped so far.                  *)
(***************************************************************************)
Tokens(tokens, isParsingArgv) ==
    [fTokens |-> tokens, fIndex |-> 0, fIsParsingArgv |-> isParsingArgv]

more(tokens) == tokens.fIndex < Len(tokens.fTokens)

current(tokens) ==
    IF more(tokens) THEN tokens.fTokens[tokens.fIndex + 1] ELSE ""

\* pop(): fTokens.at(fIndex++); at() throws std::out_of_range past the end.
canPop(tokens) == more(tokens)
pop(tokens) == [tokens EXCEPT !.fIndex = @ + 1]

the_rest(tokens) ==
    IF ~more(tokens) THEN ""
    ELSE join(SubSeq(tokens.fTokens, tokens.fIndex + 1, Len(tokens.fTokens)), " ")

OutOfRange == Throw("std::out_of_range", "vector::at")


(***************************************************************************)
(* What a parsing function hands back: the patterns it made (pointers into *)
(* mem), the token cursor, the option catalog, the arena and the exception *)
(* it threw, if any.                                                       *)
(***************************************************************************)
Parsed(ret, tokens, options, mem) ==
    [ret |-> ret, tokens |-> tokens, options |-> options, mem |-> mem,
     err |-> NoError]

Failed(tokens, options, mem, e) ==
    [ret |-> <<>>, tokens |-> tokens, options |-> options, mem |-> mem,
     err |-> e]

RECURSIVE to_string(_)
to_string(n) ==
    LET digit == <<"0", "1", "2", "3", "4", "5", "6", "7", "8", "9">> IN
    IF n < 10 THEN digit[n + 1]
    ELSE to_string(n \div 10) \o digit[(n % 10) + 1]

longOptions(similar) == [i \in 1..Len(similar) |-> similar[i].fLongOption]

\* A faulty variant of similarLong: the prefix search runs although an exact
\* match was found.
similarLong_AlwaysPrefix(options, longOpt, isParsingArgv) ==
    IF isParsingArgv
    THEN SelectSeq(options, LAMBDA o : o.fLongOption # ""
                                       /\ starts_with(o.fLongOption, longOpt))
    ELSE SelectSeq(options, LAMBDA o : o.fLongOption = longOpt)

\* parse_long: the options that match this long option, exactly or, for argv
\* and when there is no exact match, by prefix.
similarLong(options, longOpt, isParsingArgv) ==
    LET exact == SelectSeq(options, LAMBDA o : o.fLongOption = longOpt) IN
    IF isParsingArgv /\ exact = <<>>
    THEN SelectSeq(options, LAMBDA o : o.fLongOption # ""
                                       /\ starts_with(o.fLongOption, longOpt))
    ELSE exact

\* A faulty variant of emplace_back: the new option is not kept.
emplace_back_Lost(options, opt) == options

\* options.emplace_back(...): an option seen for the first time joins the
\* catalog, at its end.
emplace_back(options, opt) == Append(options, opt)

\* o->setValue(val ? std::move(val) : value{true}), only when parsing argv
argvValue(o, val, tokens) ==
    IF tokens.fIsParsingArgv
    THEN [o EXCEPT !.value = IF hasContents(val) THEN val ELSE VBool(TRUE)]
    ELSE o

\* long ::= '--' chars [ ( ' ' | '=' ) chars ] ;
parse_long(tokens0, options, mem) ==
    IF ~canPop(tokens0) THEN Failed(tokens0, options, mem, OutOfRange)
    ELSE
    LET p == partition(current(tokens0), "=")
        tokens == pop(tokens0)
        longOpt == p[1]
        equal == p[2]
        val == IF equal = "" THEN VEmpty ELSE VString(p[3])
        similar == similarLong(options, longOpt, tokens.fIsParsingArgv)
    IN
    IF Len(similar) > 1 THEN
        Failed(tokens, options, mem,
               Throw("OptionError",
                     "'" \o longOpt \o "' is not a unique prefix: "
                         \o join(longOptions(similar), ", ")))
    ELSE IF similar = <<>> THEN
        LET argcount == IF equal = "" THEN 0 ELSE 1
            opt == Option("", longOpt, argcount, VBool(FALSE))
            o == IF tokens.fIsParsingArgv
                 THEN [opt EXCEPT !.value = IF argcount # 0 THEN val
                                            ELSE VBool(TRUE)]
                 ELSE opt
        IN Parsed(<< New(mem) >>, tokens, emplace_back(options, opt),
                  Alloc(mem, o))
    ELSE
        LET o == similar[1] IN
        IF o.fArgcount = 0 THEN
            IF hasContents(val) THEN
                Failed(tokens, options, mem,
                       Throw("OptionError",
                             o.fLongOption \o " must not have an argument"))
            ELSE Parsed(<< New(mem) >>, tokens, options,
                        Alloc(mem, argvValue(o, val, tokens)))
        ELSE IF ~hasContents(val) THEN
            IF current(tokens) = "" \/ current(tokens) = "--" THEN
                Failed(tokens, options, mem,
                       Throw("OptionError",
                             o.fLongOption \o " requires an argument"))
            ELSE Parsed(<< New(mem) >>, pop(tokens), options,
                        Alloc(mem, argvValue(o, VString(current(tokens)), tokens)))
        ELSE Parsed(<< New(mem) >>, tokens, options,
                    Alloc(mem, argvValue(o, val, tokens)))

\* A faulty variant of shortOptionOf: a cluster is read as one option name.
shortOptionOf_WholeCluster(token, i) == "-" \o SubSeq(token, i, Len(token))

\* std::string shortOpt = { '-', *i };
shortOptionOf(token, i) == "-" \o Char(token, i)

\* The loop of parse_short; i is the position in token of the next character.
RECURSIVE parse_short_loop(_, _, _, _, _, _)
parse_short_loop(token, i, tokens, options, mem, ret) ==
    IF i > Len(token) THEN Parsed(ret, tokens, options, mem)
    ELSE
    LET shortOpt == shortOptionOf(token, i)
        similar == SelectSeq(options, LAMBDA o : o.fShortOption = shortOpt)
    IN
    IF Len(similar) > 1 THEN
        Failed(tokens, options, mem,
               Throw("OptionError",
                     shortOpt \o " is specified ambiguously "
                         \o to_string(Len(similar)) \o " times"))
    ELSE IF similar = <<>> THEN
        LET opt == Option(shortOpt, "", 0, VBool(FALSE))
            o == IF tokens.fIsParsingArgv
                 THEN [opt EXCEPT !.value = VBool(TRUE)] ELSE opt
        IN parse_short_loop(token, i + 1, tokens, emplace_back(options, opt),
                            Alloc(mem, o), Append(ret, New(mem)))
    ELSE
        LET o == similar[1] IN
        IF o.fArgcount # 0 THEN
            IF i + 1 > Len(token) THEN
                \* consume the next token
                IF current(tokens) = "" \/ current(tokens) = "--" THEN
                    Failed(tokens, options, mem,
                           Throw("OptionError",
                                 shortOpt \o " requires an argument"))
                ELSE parse_short_loop(token, i + 1, pop(tokens), options,
                        Alloc(mem, argvValue(o, VString(current(tokens)), tokens)),
                        Append(ret, New(mem)))
            ELSE
                \* consume all the rest
                parse_short_loop(token, Len(token) + 1, tokens, options,
                    Alloc(mem, argvValue(o,
                              VString(SubSeq(token, i + 1, Len(token))), tokens)),
                    Append(ret, New(mem)))
        ELSE parse_short_loop(token, i + 1, tokens, options,
                 Alloc(mem, argvValue(o, VEmpty, tokens)),
                 Append(ret, New(mem)))

\* shorts ::= '-' ( chars )* [ [ ' ' ] chars ] ;
parse_short(tokens, options, mem) ==
    IF ~canPop(tokens) THEN Failed(tokens, options, mem, OutOfRange)
    ELSE parse_short_loop(current(tokens), 2, pop(tokens), options, mem, <<>>)

\* while (tokens) ret.emplace_back(std::make_shared<Argument>("", tokens.pop()));
RECURSIVE rest_as_arguments(_, _, _)
rest_as_arguments(tokens, mem, ret) ==
    IF ~more(tokens) THEN [ret |-> ret, tokens |-> tokens, mem |-> mem]
    ELSE rest_as_arguments(pop(tokens),
                           Alloc(mem, Argument("", VString(current(tokens)))),
                           Append(ret, New(mem)))

\* A faulty variant of isEndOfOptions: "--" is not recognised.
isEndOfOptions_Never(token) == FALSE

\* parse_argv: if (token=="--")
isEndOfOptions(token) == token = "--"

\* If options_first:
\*    argv ::= [ long | shorts ]* [ argument ]* [ '--' [ argument ]* ] ;
\* else:
\*    argv ::= [ long | shorts | argument ]* [ '--' [ argument ]* ] ;
RECURSIVE parse_argv_loop(_, _, _, _, _)
parse_argv_loop(tokens, options, options_first, mem, ret) ==
    LET token == current(tokens)
        \* the rest of argv has become arguments
        rest(r) ==
            parse_argv_loop(r.tokens, options, options_first, r.mem, r.ret)
        \* parse_long or parse_short has returned or thrown
        option(r) ==
            IF Thrown(r.err) THEN r
            ELSE parse_argv_loop(r.tokens, r.options, options_first, r.mem,
                                 ret \o r.ret)
    IN
    IF ~more(tokens) THEN Parsed(ret, tokens, options, mem)
    ELSE IF isEndOfOptions(token) THEN
        rest(rest_as_arguments(tokens, mem, ret))
    ELSE IF starts_with(token, "--") THEN
        option(parse_long(tokens, options, mem))
    ELSE IF Char(token, 1) = "-" /\ token # "-" THEN
        option(parse_short(tokens, options, mem))
    ELSE IF options_first THEN
        rest(rest_as_arguments(tokens, mem, ret))
    ELSE parse_argv_loop(pop(tokens), options, options_first,
                         Alloc(mem, Argument("", VString(token))),
                         Append(ret, New(mem)))

\* A faulty variant of parse_argv: options_first is not looked at.
parse_argv_Mixed(tokens, options, options_first) ==
    parse_argv_loop(tokens, options, FALSE, <<>>, <<>>)

parse_argv(tokens, options, options_first) ==
    parse_argv_loop(tokens, options, options_first, <<>>, <<>>)

(***************************************************************************)
(* Tokens::from_pattern: the two stages of tokenising the formal usage.    *)
(***************************************************************************)
\* re_separators: one of [ ] ( ) | at position i, or an ellipsis.
separatorAt(source, i) ==
    IF Char(source, i) \in {"[", "]", "(", ")", "|"} THEN Char(source, i)
    ELSE IF i + 2 <= Len(source) /\ SubSeq(source, i, i + 2) = "..." THEN "..."
    ELSE ""

RECURSIVE nextSeparator(_, _)
nextSeparator(source, from) ==
    IF from > Len(source) THEN 0
    ELSE IF separatorAt(source, from) # "" THEN from
    ELSE nextSeparator(source, from + 1)

\* re_strings, first alternative \S*<.*?> : the last '<' of the run q..r of
\* non-space characters that has a '>' somewhere after it (0 if none).
RECURSIVE lastAngle(_, _, _)
lastAngle(str, q, j) ==
    IF j < q THEN 0
    ELSE IF Char(str, j) = "<" /\ find(str, ">", j + 1) # 0 THEN j
    ELSE lastAngle(str, q, j - 1)

\* re_strings over the text between two separators
RECURSIVE strings(_, _)
strings(str, from) ==
    LET q == find_first_not_of(str, anySpace, from) IN
    IF q = 0 THEN <<>>
    ELSE LET e == find_first_of(str, anySpace, q)
             r == IF e = 0 THEN Len(str) ELSE e - 1
             j == lastAngle(str, q, r)
             k == IF j = 0 THEN r ELSE find(str, ">", j + 1)
         IN << SubSeq(str, q, k) >> \o strings(str, k + 1)

RECURSIVE from_pattern_loop(_, _)
from_pattern_loop(source, from) ==
    LET j == nextSeparator(source, from) IN
    IF j = 0 THEN <<>>   \* what follows the last separator is not tokenised
    ELSE LET sep == separatorAt(source, j) IN
         strings(SubSeq(source, from, j - 1), 1) \o << sep >>
             \o from_pattern_loop(source, j + Len(sep))

from_pattern(source) == Tokens(from_pattern_loop(source, 1), FALSE)

(***************************************************************************)
(* The usage grammar                                                       *)
(***************************************************************************)
Upper == {"A", "B", "C", "D", "E", "F", "G", "H", "I", "J", "K", "L", "M",
          "N", "O", "P", "Q", "R", "S", "T", "U", "V", "W", "X", "Y", "Z"}

is_argument_spec(token) ==
    IF token = "" THEN FALSE
    ELSE IF Char(token, 1) = "<" /\ Char(token, Len(token)) = ">" THEN TRUE
    ELSE \A i \in 1..Len(token) : Char(token, i) \in Upper

RECURSIVE parse_expr(_, _, _)
RECURSIVE parse_seq_loop(_, _, _, _)

\* The two bracketed atoms: '[' expr ']' makes an Optional, '(' expr ')' a
\* Required.
bracketed(tokens, options, mem, type, close) ==
    LET closed(expr) ==
            IF Thrown(expr.err) THEN expr
            ELSE IF ~canPop(expr.tokens) THEN
                Failed(expr.tokens, expr.options, expr.mem, OutOfRange)
            ELSE IF current(expr.tokens) # close THEN
                Failed(pop(expr.tokens), expr.options, expr.mem,
                       Throw("DocoptLanguageError",
                             IF close = "]" THEN "Mismatched '['"
                             ELSE "Mismatched '('"))
            ELSE Parsed(<< New(expr.mem) >>, pop(expr.tokens), expr.options,
                        Alloc(expr.mem, BranchPattern(type, expr.ret)))
    IN closed(parse_expr(pop(tokens), options, mem))

\* atom ::= '(' expr ')' | '[' expr ']' | 'options'
\*             | long | shorts | argument | command ;
parse_atom(tokens, options, mem) ==
    LET token == current(tokens) IN
    IF token = "[" THEN bracketed(tokens, options, mem, "Optional", "]")
    ELSE IF token = "(" THEN bracketed(tokens, options, mem, "Required", ")")
    ELSE IF token = "options" THEN
        Parsed(<< New(mem) >>, pop(tokens), options,
               Alloc(mem, BranchPattern("OptionsShortcut", <<>>)))
    ELSE IF starts_with(token, "--") /\ token # "--" THEN
        parse_long(tokens, options, mem)
    ELSE IF starts_with(token, "-") /\ token # "-" /\ token # "--" THEN
        parse_short(tokens, options, mem)
    ELSE IF ~canPop(tokens) THEN Failed(tokens, options, mem, OutOfRange)
    ELSE IF is_argument_spec(token) THEN
        Parsed(<< New(mem) >>, pop(tokens), options,
               Alloc(mem, Argument(token, VEmpty)))
    ELSE Parsed(<< New(mem) >>, pop(tokens), options,
                Alloc(mem, Command(token, VBool(FALSE))))

\* seq ::= ( atom [ '...' ] )* ;
parse_seq_loop(tokens, options, mem, ret) ==
    LET repeated(atom) ==
            IF Thrown(atom.err) THEN atom
            ELSE IF current(atom.tokens) = "..." THEN
                parse_seq_loop(pop(atom.tokens), atom.options,
                               Alloc(atom.mem,
                                     BranchPattern("OneOrMore", atom.ret)),
                               Append(ret, New(atom.mem)))
            ELSE parse_seq_loop(atom.tokens, atom.options, atom.mem,
                                ret \o atom.ret)
    IN IF ~more(tokens) \/ current(tokens) \in {"]", ")", "|"}
       THEN Parsed(ret, tokens, options, mem)
       ELSE repeated(parse_atom(tokens, options, mem))

parse_seq(tokens, options, mem) == parse_seq_loop(tokens, options, mem, <<>>)

\* maybe_collapse_to_required / maybe_collapse_to_either: [pattern, mem]
maybe_collapse(type, seq, mem) ==
    IF Len(seq) = 1 THEN [p |-> seq[1], mem |-> mem]
    ELSE [p |-> New(mem), mem |-> Alloc(mem, BranchPattern(type, seq))]

\* The loop of parse_expr: while (tokens.current() == "|")
RECURSIVE parse_expr_loop(_, _, _, _)
parse_expr_loop(tokens, options, mem, ret) ==
    LET collapsed(e) == Parsed(<< e.p >>, tokens, options, e.mem)
        added(seq, c) ==
            parse_expr_loop(seq.tokens, seq.options, c.mem, Append(ret, c.p))
        next(seq) ==
            IF Thrown(seq.err) THEN seq
            ELSE added(seq, maybe_collapse("Required", seq.ret, seq.mem))
    IN IF current(tokens) # "|"
       THEN collapsed(maybe_collapse("Either", ret, mem))
       ELSE next(parse_seq(pop(tokens), options, mem))

\* expr ::= seq ( '|' seq )* ;
parse_expr(tokens, options, mem) ==
    LET first(seq, c) ==
            parse_expr_loop(seq.tokens, seq.options, c.mem, << c.p >>)
        alternatives(seq) ==
            IF Thrown(seq.err) THEN seq
            ELSE IF current(seq.tokens) # "|" THEN seq
            ELSE first(seq, maybe_collapse("Required", seq.ret, seq.mem))
    IN alternatives(parse_seq(tokens, options, mem))

\* parse_pattern: the root Required is the last node of the arena.
parse_pattern(source, options) ==
    LET top(result) ==
            IF Thrown(result.err) THEN result
            ELSE IF more(result.tokens) THEN
                Failed(result.tokens, result.options, result.mem,
                       Throw("DocoptLanguageError",
                             "Unexpected ending: '"
                                 \o the_rest(result.tokens) \o "'"))
            ELSE IF Len(result.ret) # 1 THEN
                \* assert(result.size() == 1 && "top level is always one big")
                Failed(result.tokens, result.options, result.mem,
                       Throw("assert", "result.size() == 1"))
            ELSE Parsed(<< New(result.mem) >>, result.tokens, result.options,
                        Alloc(result.mem,
                              BranchPattern("Required", result.ret)))
    IN top(parse_expr(from_pattern(source), options, <<>>))

\* formal_usage, the loop over parts[1..]
RECURSIVE formal_usage_loop(_, _)
formal_usage_loop(parts, i) ==
    IF i > Len(parts) THEN ""
    ELSE (IF parts[i] = parts[1] THEN " ) | (" ELSE " " \o parts[i])
             \o formal_usage_loop(parts, i + 1)

formal_usage(section) ==
    LET parts == split(section, find(section, ":", 1) + 1)
    IN "(" \o formal_usage_loop(parts, 2) \o " )"

(***************************************************************************)
(* Pattern::hash, flat, leaves.  A hash is modelled by the structure it    *)
(* is computed from (no two different structures collide).                 *)
(***************************************************************************)
RECURSIVE hash(_, _)
hash(mem, p) ==
    LET n == mem[p] IN
    IF n.type = "Option" THEN
        << n.type, n.name, n.value, n.fShortOption, n.fLongOption, n.fArgcount >>
    ELSE IF isLeaf(n) THEN << n.type, n.name, n.value >>
    ELSE << n.type, Len(n.fChildren),
            [k \in 1..Len(n.fChildren) |-> hash(mem, n.fChildren[k])] >>

\* The hash of an Option that is not in an arena (an entry of the catalog).
hashOption(o) ==
    << o.type, o.name, o.value, o.fShortOption, o.fLongOption, o.fArgcount >>

RECURSIVE flatten(_)
flatten(seqs) == IF seqs = <<>> THEN <<>> ELSE Head(seqs) \o flatten(Tail(seqs))

\* flat_filter<T>(pattern): the nodes of dynamic type T, in depth-first order
RECURSIVE flat_filter(_, _, _)
flat_filter(mem, p, type) ==
    LET n == mem[p] IN
    IF n.type = type THEN << p >>
    ELSE flatten([k \in 1..Len(n.fChildren) |->
                     flat_filter(mem, n.fChildren[k], type)])

\* Pattern::leaves / collect_leaves
RECURSIVE leaves(_, _)
leaves(mem, p) ==
    LET n == mem[p] IN
    IF isLeaf(n) THEN << p >>
    ELSE flatten([k \in 1..Len(n.fChildren) |-> leaves(mem, n.fChildren[k])])

Range(seq) == {seq[i] : i \in 1..Len(seq)}

(***************************************************************************)
(* parse_section.  The source is given as its lines (the text between the  *)
(* line breaks).                                                           *)
(***************************************************************************)
UpperCase == "ABCDEFGHIJKLMNOPQRSTUVWXYZ"
LowerCase == "abcdefghijklmnopqrstuvwxyz"

\* A faulty variant of tolower: the case of a letter counts.
tolower_Same(ch) == ch

\* std::regex::icase compares the lower-case forms of two characters.
tolower(ch) ==
    IF \E i \in 1..Len(UpperCase) : Char(UpperCase, i) = ch
    THEN Char(LowerCase, CHOOSE i \in 1..Len(UpperCase) : Char(UpperCase, i) = ch)
    ELSE ch

\* [^\n]*name[^\n]*: the line contains name, whatever the case of the letters
contains_name(line, name) ==
    \E i \in 1..(Len(line) - Len(name) + 1) :
        \A k \in 1..Len(name) :
            tolower(Char(line, i + k - 1)) = tolower(Char(name, k))

\* (?:\n[ \t].*?(?=\n|$))*: the last of the indented lines that follow line i
RECURSIVE indented_until(_, _)
indented_until(lines, i) ==
    IF i < Len(lines) /\ Char(lines[i + 1], 1) \in {" ", "\t"}
    THEN indented_until(lines, i + 1)
    ELSE i

RECURSIVE find_last_not_of(_, _, _)
find_last_not_of(str, set, from) ==
    IF from < 1 THEN 0
    ELSE IF Char(str, from) \notin set THEN from
    ELSE find_last_not_of(str, set, from - 1)

\* trim(str, whitespace = " \t\n")
trim(str) ==
    LET whitespace == {" ", "\t", "\n"}
        strEnd == find_last_not_of(str, whitespace, Len(str))
    IN IF strEnd = 0 THEN ""
       ELSE SubSeq(str, find_first_not_of(str, whitespace, 1), strEnd)

\* The matches of re_section_pattern from line i on: a line that contains
\* name, with the indented lines that follow it.
RECURSIVE parse_section_loop(_, _, _)
parse_section_loop(name, lines, i) ==
    IF i > Len(lines) THEN <<>>
    ELSE IF ~contains_name(lines[i], name)
    THEN parse_section_loop(name, lines, i + 1)
    ELSE LET last == indented_until(lines, i) IN
         << trim(join(SubSeq(lines, i, last), "\n")) >>
             \o parse_section_loop(name, lines, last + 1)

parse_section(name, lines) == parse_section_loop(name, lines, 1)

(***************************************************************************)
(* create_pattern_tree.  A doc is given by lines, its text apart from the  *)
(* options: sections, and by options, what the regex of parse_defaults     *)
(* finds in the options: sections: the option descriptions.                *)
(***************************************************************************)
parse_section_usage(doc) == parse_section("usage:", doc.lines)

parse_defaults(doc) ==
    LET ds == SelectSeq(doc.options, LAMBDA d : starts_with(d.spec, "-"))
    IN [i \in 1..Len(ds) |-> Option_parse(ds[i])]

\* set(doc_options) - set(pattern_options), both unique by hash: the
\* doc options in the order of the doc.
RECURSIVE uniq_doc_options(_, _, _)
uniq_doc_options(doc_options, pattern_hashes, seen) ==
    IF doc_options = <<>> THEN <<>>
    ELSE LET opt == Head(doc_options)
             h == hashOption(opt)
         IN IF h \in pattern_hashes \/ h \in seen
            THEN uniq_doc_options(Tail(doc_options), pattern_hashes, seen)
            ELSE << opt >> \o uniq_doc_options(Tail(doc_options),
                                               pattern_hashes, seen \cup {h})

\* options_shortcut->setChildren(children) for each shortcut in turn; the
\* children are fresh copies of opts.
RECURSIVE fill_shortcuts(_, _, _)
fill_shortcuts(mem, shortcuts, opts) ==
    IF shortcuts = <<>> THEN mem
    ELSE LET ids == [i \in 1..Len(opts) |-> Len(mem) + i]
             mem2 == mem \o opts
         IN fill_shortcuts([mem2 EXCEPT ![Head(shortcuts)].fChildren = ids],
                           Tail(shortcuts), opts)

\* An unordered_set is walked in an order the implementation chooses.
Orders(n) == {f \in [1..n -> 1..n] : \A i, j \in 1..n : f[i] = f[j] => i = j}

\* The outcome of create_pattern_tree before the shortcuts are filled.
parse_usage(doc) ==
    LET usage_sections == parse_section_usage(doc) IN
    IF usage_sections = <<>> THEN
        Failed(Tokens(<<>>, FALSE), <<>>, <<>>,
               Throw("DocoptLanguageError",
                     "'usage:' (case-insensitive) not found."))
    ELSE IF Len(usage_sections) > 1 THEN
        Failed(Tokens(<<>>, FALSE), <<>>, <<>>,
               Throw("DocoptLanguageError",
                     "More than one 'usage:' (case-insensitive)."))
    ELSE parse_pattern(formal_usage(usage_sections[1]), parse_defaults(doc))

\* A faulty variant of shortcut_options: every option of the options section
\* goes under the shortcut.
shortcut_options_All(doc, pattern) == parse_defaults(doc)

\* The options that an [options] shortcut of this doc stands for.
shortcut_options(doc, pattern) ==
    LET pattern_options == flat_filter(pattern.mem, pattern.ret[1], "Option")
    IN uniq_doc_options(parse_defaults(doc),
                        {hash(pattern.mem, o) : o \in Range(pattern_options)},
                        {})

\* create_pattern_tree(doc), with the order in which the unordered_set of
\* the shortcut's options is walked: [pattern (the root), options, mem, err]
create_pattern_tree(doc, order) ==
    LET children(opts) == [i \in 1..Len(opts) |-> opts[order[i]]]
        filled(pattern) ==
            IF Thrown(pattern.err) THEN
                [pattern |-> 0, options |-> <<>>, mem |-> <<>>,
                 err |-> pattern.err]
            ELSE
                [pattern |-> pattern.ret[1], options |-> pattern.options,
                 mem |-> fill_shortcuts(
                             pattern.mem,
                             flat_filter(pattern.mem, pattern.ret[1],
                                         "OptionsShortcut"),
                             children(shortcut_options(doc, pattern))),
                 err |-> NoError]
    IN filled(parse_usage(doc))

(***************************************************************************)
(* BranchPattern::fix: fix_identities and fix_repeating_arguments          *)
(***************************************************************************)
\* fix_identities for the children k.. of branch p; patterns is the
\* UniquePatternSet (unique by hash).  [mem, patterns]
RECURSIVE fix_identities_loop(_, _, _, _)
fix_identities_loop(mem, p, k, patterns) ==
    IF k > Len(mem[p].fChildren) THEN [mem |-> mem, patterns |-> patterns]
    ELSE
    LET child == mem[p].fChildren[k]
        sub == IF isBranch(mem[child])
               THEN fix_identities_loop(mem, child, 1, patterns)
               ELSE [mem |-> mem, patterns |-> patterns]
        h == hash(sub.mem, child)
        same == {q \in sub.patterns : hash(sub.mem, q) = h}
    IN IF same = {} THEN
           fix_identities_loop(sub.mem, p, k + 1, sub.patterns \cup {child})
       ELSE fix_identities_loop(
                [sub.mem EXCEPT ![p].fChildren[k] = CHOOSE q \in same : TRUE],
                p, k + 1, sub.patterns)

\* A faulty variant of fix_identities: every occurrence keeps its own node.
fix_identities_None(mem, p) == mem

fix_identities(mem, p) == fix_identities_loop(mem, p, 1, {}).mem

\* The position of the first branch node of a list (0 if none)
RECURSIVE firstBranch(_, _, _)
firstBranch(mem, children, i) ==
    IF i > Len(children) THEN 0
    ELSE IF isBranch(mem[children[i]]) THEN i
    ELSE firstBranch(mem, children, i + 1)

\* A faulty variant of expand: a OneOrMore contributes its child once.
expand_Once(child, children) ==
    IF child.type = "Either"
    THEN [i \in 1..Len(child.fChildren) |-> << child.fChildren[i] >> \o children]
    ELSE << child.fChildren \o children >>

\* transform: the groups that replace `children' once the branch `child'
\* has been taken out of it.
expand(child, children) ==
    IF child.type = "Either"
    THEN [i \in 1..Len(child.fChildren) |-> << child.fChildren[i] >> \o children]
    ELSE IF child.type = "OneOrMore"
    THEN << child.fChildren \o child.fChildren \o children >>
    ELSE << child.fChildren \o children >>

RECURSIVE transform_loop(_, _, _)
transform_loop(mem, groups, result) ==
    IF groups = <<>> THEN result
    ELSE
    LET children == Head(groups)
        i == firstBranch(mem, children, 1)
    IN IF i = 0 THEN transform_loop(mem, Tail(groups), Append(result, children))
       ELSE transform_loop(mem,
                Tail(groups)
                  \o expand(mem[children[i]],
                            SubSeq(children, 1, i - 1)
                              \o SubSeq(children, i + 1, Len(children))),
                result)

transform(mem, pattern) == transform_loop(mem, << pattern >>, <<>>)

count(group, e) == Cardinality({i \in 1..Len(group) : group[i] = e})

\* A faulty variant of promoted: a repeated option without argument stays a flag.
promoted_NoCounter(leaf) ==
    IF leaf.type = "Argument" \/ (leaf.type = "Option" /\ leaf.fArgcount # 0)
    THEN IF isStringList(leaf.value) THEN leaf
         ELSE [leaf EXCEPT !.value =
                  VStringList(IF isString(leaf.value)
                              THEN split(leaf.value.s, 1) ELSE <<>>)]
    ELSE IF leaf.type = "Command" THEN [leaf EXCEPT !.value = VLong(0)]
    ELSE leaf

\* fix_repeating_arguments: the leaf after ensureList / ensureInt
promoted(leaf) ==
    IF leaf.type = "Argument" \/ (leaf.type = "Option" /\ leaf.fArgcount # 0)
    THEN IF isStringList(leaf.value) THEN leaf
         ELSE [leaf EXCEPT !.value =
                  VStringList(IF isString(leaf.value)
                              THEN split(leaf.value.s, 1) ELSE <<>>)]
    ELSE [leaf EXCEPT !.value = VLong(0)]

RECURSIVE promote_group(_, _, _)
promote_group(mem, group, i) ==
    IF i > Len(group) THEN mem
    ELSE LET e == group[i] IN
         IF count(group, e) = 1 \/ ~isLeaf(mem[e])
         THEN promote_group(mem, group, i + 1)
         ELSE promote_group([mem EXCEPT ![e] = promoted(mem[e])], group, i + 1)

RECURSIVE promote_groups(_, _)
promote_groups(mem, either) ==
    IF either = <<>> THEN mem
    ELSE promote_groups(promote_group(mem, Head(either), 1), Tail(either))

fix_repeating_arguments(mem, p) ==
    promote_groups(mem, transform(mem, mem[p].fChildren))

fix(mem, p) == fix_repeating_arguments(fix_identities(mem, p), p)

(***************************************************************************)
(* The matcher.  left and collected are vectors of pointers into heap; a   *)
(* copy of a vector copies the pointers, not the leaves.  A match hands    *)
(* back [ok, left, collected, heap, calls, err]: calls is the record of    *)
(* every match() call made, innermost first, each with the caller's        *)
(* (left, collected, heap) before and after it.                            *)
(***************************************************************************)
Matched(ok, left, collected, heap, calls) ==
    [ok |-> ok, left |-> left, collected |-> collected, heap |-> heap,
     calls |-> calls, err |-> NoError]

\* The loops of single_match: the position in left, from i on, of the first
\* pattern that dynamic_cast<Argument const*> accepts (0 if none) ...
RECURSIVE firstArgument(_, _, _)
firstArgument(left, heap, i) ==
    IF i > Len(left) THEN 0
    ELSE IF isArgument(heap[left[i]]) THEN i
    ELSE firstArgument(left, heap, i + 1)

\* ... and of the first leaf with this name.
RECURSIVE firstLeafNamed(_, _, _, _)
firstLeafNamed(left, heap, name, i) ==
    IF i > Len(left) THEN 0
    ELSE IF isLeaf(heap[left[i]]) /\ name = heap[left[i]].name THEN i
    ELSE firstLeafNamed(left, heap, name, i + 1)

\* LeafPattern::match: std::find_if over collected for a leaf of this name.
RECURSIVE find_same_name(_, _, _, _)
find_same_name(collected, heap, name, i) ==
    IF i > Len(collected) THEN 0
    ELSE IF heap[collected[i]].name = name THEN i
    ELSE find_same_name(collected, heap, name, i + 1)

\* The position of the first positional of left that equals the command name.
RECURSIVE firstCommand(_, _, _, _)
firstCommand(left, heap, name, i) ==
    IF i > Len(left) THEN 0
    ELSE IF isArgument(heap[left[i]]) /\ VString(name) = heap[left[i]].value
    THEN i
    ELSE firstCommand(left, heap, name, i + 1)

erase(seq, i) == SubSeq(seq, 1, i - 1) \o SubSeq(seq, i + 1, Len(seq))

\* A faulty variant of Argument_single_match: the new leaf keeps the name of the
\* argv pattern (the empty string).
Argument_single_match_ArgvName(n, left, heap) ==
    LET i == firstArgument(left, heap, 1) IN
    IF i = 0 THEN [first |-> 0, second |-> 0, heap |-> heap]
    ELSE [first |-> i, second |-> New(heap),
          heap |-> Alloc(heap, Argument(heap[left[i]].name, heap[left[i]].value))]

\* single_match: [first (the position in left, 0 for no match), second (the
\* matched leaf), heap]
Argument_single_match(n, left, heap) ==
    LET i == firstArgument(left, heap, 1) IN
    IF i = 0 THEN [first |-> 0, second |-> 0, heap |-> heap]
    ELSE [first |-> i, second |-> New(heap),
          heap |-> Alloc(heap, Argument(n.name, heap[left[i]].value))]

\* A faulty variant of Command_single_match: the scan goes on past a positional
\* that is not the command.
Command_single_match_ScanOn(n, left, heap) ==
    LET i == firstCommand(left, heap, n.name, 1) IN
    IF i = 0 THEN [first |-> 0, second |-> 0, heap |-> heap]
    ELSE [first |-> i, second |-> New(heap),
          heap |-> Alloc(heap, Command(n.name, VBool(TRUE)))]

Command_single_match(n, left, heap) ==
    LET i == firstArgument(left, heap, 1) IN
    IF i = 0 \/ VString(n.name) # heap[left[i]].value
    THEN [first |-> 0, second |-> 0, heap |-> heap]
    ELSE [first |-> i, second |-> New(heap),
          heap |-> Alloc(heap, Command(n.name, VBool(TRUE)))]

\* A faulty variant of Option_single_match: the first option of left is taken,
\* whatever its name.
Option_single_match_AnyOption(n, left, heap) ==
    LET at == {i \in 1..Len(left) : heap[left[i]].type = "Option"}
    IN IF at = {} THEN [first |-> 0, second |-> 0, heap |-> heap]
       ELSE LET i == CHOOSE i \in at : \A j \in at : i <= j
            IN [first |-> i, second |-> left[i], heap |-> heap]

Option_single_match(n, left, heap) ==
    LET i == firstLeafNamed(left, heap, n.name, 1)
    IN IF i = 0 THEN [first |-> 0, second |-> 0, heap |-> heap]
       ELSE [first |-> i, second |-> left[i], heap |-> heap]

single_match(n, left, heap) ==
    IF n.type = "Argument" THEN Argument_single_match(n, left, heap)
    ELSE IF n.type = "Command" THEN Command_single_match(n, left, heap)
    ELSE Option_single_match(n, left, heap)

\* A faulty variant of accumulate_long: a second hit does not add to the counter.
accumulate_long_NoAdd(collected, heap, same_name, second) ==
    IF same_name = 0 THEN
        [collected |-> Append(collected, second),
         heap |-> [heap EXCEPT ![second].value = VLong(1)]]
    ELSE [collected |-> collected,
          heap |-> [heap EXCEPT ![collected[same_name]].value = VLong(1)]]

\* LeafPattern::match, if (getValue().isLong())
accumulate_long(collected, heap, same_name, second) ==
    IF same_name = 0 THEN
        [collected |-> Append(collected, second),
         heap |-> [heap EXCEPT ![second].value = VLong(1)]]
    ELSE IF isLong(heap[collected[same_name]].value) THEN
        [collected |-> collected,
         heap |-> [heap EXCEPT ![collected[same_name]].value =
                                   VLong(1 + @.n)]]
    ELSE [collected |-> collected,
          heap |-> [heap EXCEPT ![collected[same_name]].value = VLong(1)]]

\* A faulty variant of accumulate_list: the new values go in front of the list.
accumulate_list_Prepend(collected, heap, same_name, second) ==
    LET v == heap[second].value
        val == IF isString(v) THEN << v.s >>
               ELSE IF isStringList(v) THEN v.l ELSE <<>>
    IN IF same_name = 0 THEN
           [collected |-> Append(collected, second),
            heap |-> [heap EXCEPT ![second].value = VStringList(val)]]
       ELSE IF isStringList(heap[collected[same_name]].value) THEN
           [collected |-> collected,
            heap |-> [heap EXCEPT ![collected[same_name]].value =
                                      VStringList(val \o @.l)]]
       ELSE [collected |-> collected,
             heap |-> [heap EXCEPT ![collected[same_name]].value =
                                       VStringList(val)]]

\* LeafPattern::match, else if (getValue().isStringList())
accumulate_list(collected, heap, same_name, second) ==
    LET v == heap[second].value
        val == IF isString(v) THEN << v.s >>
               ELSE IF isStringList(v) THEN v.l ELSE <<>>
    IN IF same_name = 0 THEN
           [collected |-> Append(collected, second),
            heap |-> [heap EXCEPT ![second].value = VStringList(val)]]
       ELSE IF isStringList(heap[collected[same_name]].value) THEN
           [collected |-> collected,
            heap |-> [heap EXCEPT ![collected[same_name]].value =
                                      VStringList(@.l \o val)]]
       ELSE [collected |-> collected,
             heap |-> [heap EXCEPT ![collected[same_name]].value =
                                       VStringList(val)]]

LeafPattern_match(n, left, collected, heap) ==
    LET stored(m, acc) ==
            Matched(TRUE, erase(left, m.first), acc.collected, acc.heap, <<>>)
        same(m) == find_same_name(collected, m.heap, n.name, 1)
        found(m) ==
            IF m.first = 0 THEN Matched(FALSE, left, collected, heap, <<>>)
            ELSE IF isLong(n.value) THEN
                stored(m, accumulate_long(collected, m.heap, same(m),
                                          m.second))
            ELSE IF isStringList(n.value) THEN
                stored(m, accumulate_list(collected, m.heap, same(m),
                                          m.second))
            ELSE stored(m, [collected |-> Append(collected, m.second),
                            heap |-> m.heap])
    IN found(single_match(n, left, heap))

\* A faulty variant of min_element: of the outcomes with the shortest left, the
\* last one is taken.
RECURSIVE min_element_Last(_, _, _)
min_element_Last(outcomes, i, min) ==
    IF i > Len(outcomes) THEN min
    ELSE IF min = 0 \/ Len(outcomes[i].left) <= Len(outcomes[min].left)
    THEN min_element_Last(outcomes, i + 1, i)
    ELSE min_element_Last(outcomes, i + 1, min)

\* std::min_element by the size of left, from position i on with the
\* smallest so far at min: the position of the first smallest (0: no outcome)
RECURSIVE min_element(_, _, _)
min_element(outcomes, i, min) ==
    IF i > Len(outcomes) THEN min
    ELSE IF min = 0 \/ Len(outcomes[i].left) < Len(outcomes[min].left)
    THEN min_element(outcomes, i + 1, i)
    ELSE min_element(outcomes, i + 1, min)

RECURSIVE match(_, _, _, _, _)
RECURSIVE Required_loop(_, _, _, _, _, _, _, _, _)
RECURSIVE Optional_loop(_, _, _, _, _, _, _)
RECURSIVE OneOrMore_loop(_, _, _, _, _, _, _, _, _)
RECURSIVE Either_loop(_, _, _, _, _, _, _, _)

\* Required::match from child k on; (l, c) are the working copies.
Required_loop(nodes, p, k, left, collected, l, c, heap, calls) ==
    LET step(r) ==
            IF Thrown(r.err) THEN [r EXCEPT !.calls = calls \o @]
            ELSE IF ~r.ok THEN
                \* leave (left, collected) untouched
                Matched(FALSE, left, collected, r.heap, calls \o r.calls)
            ELSE Required_loop(nodes, p, k + 1, left, collected,
                               r.left, r.collected, r.heap, calls \o r.calls)
    IN IF k > Len(nodes[p].fChildren) THEN Matched(TRUE, l, c, heap, calls)
       ELSE step(match(nodes, nodes[p].fChildren[k], l, c, heap))

\* A faulty variant of Optional_loop: the loop ends at the first child that
\* does not match.
RECURSIVE Optional_loop_StopOnFail(_, _, _, _, _, _, _)
Optional_loop_StopOnFail(nodes, p, k, left, collected, heap, calls) ==
    LET step(r) ==
            IF Thrown(r.err) THEN [r EXCEPT !.calls = calls \o @]
            ELSE IF ~r.ok
            THEN Matched(TRUE, left, collected, r.heap, calls \o r.calls)
            ELSE Optional_loop_StopOnFail(nodes, p, k + 1, r.left, r.collected,
                                          r.heap, calls \o r.calls)
    IN IF k > Len(nodes[p].fChildren)
       THEN Matched(TRUE, left, collected, heap, calls)
       ELSE step(match(nodes, nodes[p].fChildren[k], left, collected, heap))

\* Optional::match from child k on
Optional_loop(nodes, p, k, left, collected, heap, calls) ==
    LET step(r) ==
            IF Thrown(r.err) THEN [r EXCEPT !.calls = calls \o @]
            ELSE Optional_loop(nodes, p, k + 1, r.left, r.collected, r.heap,
                               calls \o r.calls)
    IN IF k > Len(nodes[p].fChildren)
       THEN Matched(TRUE, left, collected, heap, calls)
       ELSE step(match(nodes, nodes[p].fChildren[k], left, collected, heap))

\* A faulty variant of OneOrMore_loop: the child is matched once only.
OneOrMore_loop_Once(nodes, p, l, c, heap, times, firstLoop, l_, calls) ==
    LET step(r) ==
            IF Thrown(r.err) THEN [r EXCEPT !.calls = calls \o @]
            ELSE [ok |-> r.ok, left |-> r.left, collected |-> r.collected,
                  heap |-> r.heap, calls |-> calls \o r.calls,
                  err |-> NoError]
    IN step(match(nodes, nodes[p].fChildren[1], l, c, heap))

\* One round of the loop of OneOrMore::match; l_ is the left of the round
\* before.
OneOrMore_loop(nodes, p, l, c, heap, times, firstLoop, l_, calls) ==
    LET out(r, times2) ==
            [ok |-> times2 # 0, left |-> r.left, collected |-> r.collected,
             heap |-> r.heap, calls |-> calls \o r.calls, err |-> NoError]
        step(r) ==
            IF Thrown(r.err) THEN [r EXCEPT !.calls = calls \o @]
            ELSE IF ~firstLoop /\ r.left = l_ THEN
                out(r, IF r.ok THEN times + 1 ELSE times)
            ELSE IF ~r.ok THEN out(r, times)
            ELSE OneOrMore_loop(nodes, p, r.left, r.collected, r.heap,
                                times + 1, FALSE, r.left, calls \o r.calls)
    IN step(match(nodes, nodes[p].fChildren[1], l, c, heap))

\* Either::match from child k on: the outcomes of the children that matched
Either_loop(nodes, p, k, left, collected, heap, outcomes, calls) ==
    LET step(r) ==
            IF Thrown(r.err) THEN
                [outcomes |-> outcomes, heap |-> r.heap,
                 calls |-> calls \o r.calls, err |-> r.err]
            ELSE Either_loop(nodes, p, k + 1, left, collected, r.heap,
                     IF r.ok
                     THEN Append(outcomes, [left |-> r.left,
                                            collected |-> r.collected])
                     ELSE outcomes,
                     calls \o r.calls)
    IN IF k > Len(nodes[p].fChildren) THEN
           [outcomes |-> outcomes, heap |-> heap, calls |-> calls,
            err |-> NoError]
       ELSE step(match(nodes, nodes[p].fChildren[k], left, collected, heap))

Required_match(nodes, p, left, collected, heap) ==
    Required_loop(nodes, p, 1, left, collected, left, collected, heap, <<>>)

Optional_match(nodes, p, left, collected, heap) ==
    Optional_loop(nodes, p, 1, left, collected, heap, <<>>)

OneOrMore_match(nodes, p, left, collected, heap) ==
    LET done(r) ==
            IF Thrown(r.err) \/ r.ok THEN r
            ELSE Matched(FALSE, left, collected, r.heap, r.calls)
    IN IF Len(nodes[p].fChildren) # 1 THEN
           \* assert(fChildren.size() == 1)
           [Matched(FALSE, left, collected, heap, <<>>)
               EXCEPT !.err = Throw("assert", "fChildren.size() == 1")]
       ELSE done(OneOrMore_loop(nodes, p, left, collected, heap, 0, TRUE,
                                <<>>, <<>>))

Either_match(nodes, p, left, collected, heap) ==
    LET taken(e, min) ==
            IF min = 0 THEN
                \* (left, collected) unchanged
                Matched(FALSE, left, collected, e.heap, e.calls)
            ELSE Matched(TRUE, e.outcomes[min].left,
                         e.outcomes[min].collected, e.heap, e.calls)
        done(e) ==
            IF Thrown(e.err) THEN
                [Matched(FALSE, left, collected, e.heap, e.calls)
                    EXCEPT !.err = e.err]
            ELSE taken(e, min_element(e.outcomes, 1, 0))
    IN done(Either_loop(nodes, p, 1, left, collected, heap, <<>>, <<>>))

\* Pattern::match, by the dynamic type of the node; the call is added to
\* the record.
match(nodes, p, left, collected, heap) ==
    LET n == nodes[p]
        logged(r) ==
            [r EXCEPT !.calls =
                Append(@, [pattern |-> p, ok |-> r.ok, err |-> r.err,
                           left |-> left, collected |-> collected,
                           heap |-> heap, left2 |-> r.left,
                           collected2 |-> r.collected, heap2 |-> r.heap])]
    IN IF isLeaf(n) THEN logged(LeafPattern_match(n, left, collected, heap))
       ELSE IF n.type = "Required"
       THEN logged(Required_match(nodes, p, left, collected, heap))
       ELSE IF n.type = "OneOrMore"
       THEN logged(OneOrMore_match(nodes, p, left, collected, heap))
       ELSE IF n.type = "Either"
       THEN logged(Either_match(nodes, p, left, collected, heap))
       ELSE logged(Optional_match(nodes, p, left, collected, heap))

(***************************************************************************)
(* The driver                                                              *)
(***************************************************************************)
isOptionSet(options, heap, opt1, opt2) ==
    \E i \in 1..Len(options) :
        LET opt == heap[options[i]] IN
        /\ opt.name = opt1 \/ (opt2 # "" /\ opt.name = opt2)
        /\ isLeaf(opt) /\ hasContents(opt.value)

\* A faulty variant of extras: the version exit is looked for first.
extras_VersionFirst(h, v, options, heap) ==
    IF v /\ isOptionSet(options, heap, "--version", "")
    THEN Throw("DocoptExitVersion", "Docopt --version argument encountered")
    ELSE IF h /\ isOptionSet(options, heap, "-h", "--help")
    THEN Throw("DocoptExitHelp", "Docopt --help argument encountered")
    ELSE NoError

\* A faulty variant of extras: help is given whether or not it was asked for.
extras_HelpUnasked(h, v, options, heap) ==
    IF isOptionSet(options, heap, "-h", "--help")
    THEN Throw("DocoptExitHelp", "Docopt --help argument encountered")
    ELSE IF v /\ isOptionSet(options, heap, "--version", "")
    THEN Throw("DocoptExitVersion", "Docopt --version argument encountered")
    ELSE NoError

\* A faulty variant of extras: the version flag is not looked at.
extras_AnyVersion(h, v, options, heap) ==
    IF h /\ isOptionSet(options, heap, "-h", "--help")
    THEN Throw("DocoptExitHelp", "Docopt --help argument encountered")
    ELSE IF isOptionSet(options, heap, "--version", "")
    THEN Throw("DocoptExitVersion", "Docopt --version argument encountered")
    ELSE NoError

\* extras(help, version, options): the exception it throws, if any
extras(h, v, options, heap) ==
    IF h /\ isOptionSet(options, heap, "-h", "--help")
    THEN Throw("DocoptExitHelp", "Docopt --help argument encountered")
    ELSE IF v /\ isOptionSet(options, heap, "--version", "")
    THEN Throw("DocoptExitVersion", "Docopt --version argument encountered")
    ELSE NoError

\* for (p : ps) ret[p->name()] = p->getValue();
RECURSIVE assign(_, _, _)
assign(ret, mem, ps) ==
    IF ps = <<>> THEN ret
    ELSE assign((mem[Head(ps)].name :> mem[Head(ps)].value) @@ ret,
                mem, Tail(ps))

\* The map that docopt_parse returns:
\* (a.name, a.value) for a in (pattern.flat() + collected)
result_map(mem, p, heap, c) ==
    assign(assign(<<>>, mem, leaves(mem, p)), heap, c)

\* A faulty variant of accepted: a match is accepted with argv patterns left over.
accepted_Leftover(m, left) == m

\* docopt_parse: if (matched && argv_patterns.empty())
accepted(m, left) == m /\ left = <<>>

\* A faulty variant of rethrow: an OptionError passes through.
rethrow_Through(e, as) == e

\* catch (Tokens::OptionError const& error) { throw as(error.what()); }
rethrow(e, as) == IF e.type = "OptionError" THEN Throw(as, e.what) ELSE e

\* A faulty variant of version_enabled: the check is always on.
version_enabled_Always(v) == TRUE

\* docopt(): docopt_parse(doc, argv, help, !version.empty(), options_first)
version_enabled(v) == v # ""

(***************************************************************************)
(* The inputs: docs, each with the argv tokens it is called with.          *)
(***************************************************************************)
Descr(spec) == [spec |-> spec, hasDefault |-> FALSE, default |-> ""]
DescrDefault(spec, default) ==
    [spec |-> spec, hasDefault |-> TRUE, default |-> default]

\* Flags that may be given one by one or as a cluster.
DocFlags ==
    [lines |-> << "usage: prog [-a] [-b] [<x>]" >>,
     options |-> << Descr("-a"), Descr("-b") >>]

\* Long options with a common prefix, one of them a prefix of the others.
DocLongs ==
    [lines |-> << "usage: prog [-h] [--ver] [--verbose | --version] [<x>...]" >>,
     options |-> << Descr("-h --help"), Descr("--version"),
                    Descr("--verbose"), Descr("--ver") >>]

\* Options with an argument, with and without a default, one of them
\* repeated, and an [options] shortcut.
DocDefaults ==
    [lines |-> << "usage: prog [options] [-o FILE]..." >>,
     options |-> << DescrDefault("-o FILE", "a b"),
                    DescrDefault("--speed=<kn>", "10"),
                    Descr("-p PATH") >>]

\* A repeated flag (a counter) inside and outside of a group that can fail.
DocCounter ==
    [lines |-> << "usage: prog -v [(-v go)] [-v] stop" >>,
     options |-> <<>>]

\* Three usage lines, the alternatives of an Either.
DocEither ==
    [lines |-> << "usage: prog go prog <x> prog go <x>" >>,
     options |-> <<>>]

\* A usage that gives an argument to an option that takes none.
DocBadOption ==
    [lines |-> << "usage: prog --all=<x>" >>,
     options |-> << Descr("--all") >>]

\* No usage: section at all.
DocNoUsage == [lines |-> << "prog [-a]" >>, options |-> <<>>]

\* Two usage: sections, in different cases, separated by an empty line.
DocTwoUsages ==
    [lines |-> << "Usage: prog go", "", "USAGE: prog stop" >>,
     options |-> <<>>]

\* Usage texts with brackets that do not pair up, or with something after
\* the top-level expression.
DocUnclosedParen == [lines |-> << "usage: prog (go" >>, options |-> <<>>]
DocUnclosedBracket == [lines |-> << "usage: prog [go" >>, options |-> <<>>]
DocMismatched == [lines |-> << "usage: prog (go]" >>, options |-> <<>>]
DocTrailing == [lines |-> << "usage: prog go )" >>, options |-> <<>>]

\* Two descriptions of one long option, under two short names.
DocSameLong ==
    [lines |-> << "usage: prog [-a] [-x]" >>,
     options |-> << Descr("-a --all"), Descr("-x --all") >>]

\* A usage: section of several lines (from Naval Fate): <name> is repeated
\* in the first alternative and occurs once in the second.
DocNaval ==
    [lines |-> << "Naval Fate.",
                  "",
                  "Usage:",
                  "  prog ship new <name>...",
                  "  prog ship <name> move <x> <y> [--speed=<kn>]",
                  "" >>,
     options |-> << DescrDefault("--speed=<kn>", "10") >>]

\* A repeated positional (a list) inside and outside of a group that can
\* fail.
DocList ==
    [lines |-> << "usage: prog <x> [(<x> go)] [<x>] stop" >>,
     options |-> <<>>]

\* A repeated group that matches without consuming anything: [go]... is a
\* OneOrMore of an Optional.
DocRepeat ==
    [lines |-> << "usage: prog [go]... stop" >>,
     options |-> <<>>]

\* A cluster of short options followed by an ellipsis.
DocCluster ==
    [lines |-> << "usage: prog -ab..." >>,
     options |-> <<>>]

\* Each doc comes with the tokens its argv is made of, and with the longer
\* argv it is called with.
Inputs ==
    << [doc |-> DocFlags, tokens |-> {"-a", "-b", "-ab", "x"}, argvs |-> {}],
       [doc |-> DocLongs, tokens |-> {"--ver", "--ve", "--vers", "-h", "--"},
        argvs |-> {<< "--ver", "--", "--new" >>, << "--new" >>,
                   << "--new=1", "-z" >>}],
       [doc |-> DocDefaults, tokens |-> {"-oy", "--speed=5", "-p"},
        argvs |-> {<< "-o", "y" >>, << "--speed", "5" >>, << "--speed", "" >>,
                   << "--speed=" >>, << "-p", "" >>, << "-p", "--" >>,
                   << "--speed", "--" >>, << "--speed", "5", "-p" >>}],
       [doc |-> DocCounter, tokens |-> {"-v", "go", "stop"},
        argvs |-> {<< "-v", "-v", "-v", "stop", "go" >>}],
       [doc |-> DocEither, tokens |-> {"go", "z"}, argvs |-> {}],
       [doc |-> DocBadOption, tokens |-> {"--all"}, argvs |-> {}],
       [doc |-> DocNoUsage, tokens |-> {"x"}, argvs |-> {}],
       [doc |-> DocTwoUsages, tokens |-> {"go"}, argvs |-> {}],
       [doc |-> DocUnclosedParen, tokens |-> {"go"}, argvs |-> {}],
       [doc |-> DocUnclosedBracket, tokens |-> {"go"}, argvs |-> {}],
       [doc |-> DocMismatched, tokens |-> {"go"}, argvs |-> {}],
       [doc |-> DocTrailing, tokens |-> {"go"}, argvs |-> {}],
       [doc |-> DocSameLong, tokens |-> {"-a", "-x"}, argvs |-> {}],
       [doc |-> DocNaval, tokens |-> {"ship", "new", "A"},
        argvs |-> {<< "ship", "Berlin", "move", "1", "2", "--speed=5" >>,
                   << "ship", "new", "A", "B" >>}],
       [doc |-> DocList, tokens |-> {"A", "go", "stop"}, argvs |-> {}],
       [doc |-> DocRepeat, tokens |-> {"go", "stop"}, argvs |-> {}],
       [doc |-> DocCluster, tokens |-> {"-a", "-b"}, argvs |-> {}] >>

\* The longest argv
MaxArgv == 3

SeqsUpTo(S, n) == UNION {[1..k -> S] : k \in 0..n}

(***************************************************************************)
(* The state: the arguments of the call, the locals of docopt_parse, what  *)
(* it returned or threw, and what docopt() did to the process.             *)
(***************************************************************************)
VARIABLES api, doc, argv, help, version, versionString, options_first,
          pc, nodes, pattern, options, heap, argv_patterns, collected,
          matched, calls, outcome, process

vars == << api, doc, argv, help, version, versionString, options_first,
           pc, nodes, pattern, options, heap, argv_patterns, collected,
           matched, calls, outcome, process >>

args == << api, doc, argv, help, versionString, options_first >>

NoOutcome == [type |-> "none", what |-> "", map |-> <<>>]
Returned(map) == [type |-> "map", what |-> "", map |-> map]
Raised(e) == [type |-> e.type, what |-> e.what, map |-> <<>>]

Running == [state |-> "running", status |-> 0, out |-> <<>>, err |-> <<>>]

\* docopt_parse as a function of its arguments and of the order in which
\* the unordered_set of the shortcut's options is walked: what it returns
\* or throws.
docopt_parse(d, a, h, v, first, order) ==
    LET result(fixed, t, m) ==
            IF Thrown(m.err) THEN Raised(m.err)
            ELSE IF accepted(m.ok, m.left)
            THEN Returned(result_map(fixed, t.pattern, m.heap, m.collected))
            ELSE Raised(Throw("DocoptArgumentError",
                     IF m.ok THEN "Unexpected argument: " \o join(a, ", ")
                     ELSE "Arguments did not match expected patterns"))
        matching(fixed, t, r) ==
            result(fixed, t, match(fixed, t.pattern, r.ret, <<>>, r.mem))
        checked(t, r, e) ==
            IF Thrown(e) THEN Raised(e)
            ELSE matching(fix(t.mem, t.pattern), t, r)
        parsed(t, r) ==
            IF Thrown(r.err)
            THEN Raised(rethrow(r.err, "DocoptArgumentError"))
            ELSE checked(t, r, extras(h, v, r.ret, r.mem))
        created(t) ==
            IF Thrown(t.err)
            THEN Raised(rethrow(t.err, "DocoptLanguageError"))
            ELSE parsed(t, parse_argv(Tokens(a, TRUE), t.options, first))
    IN created(create_pattern_tree(d, order))

Init ==
    /\ \E i \in 1..Len(Inputs) :
          /\ doc = Inputs[i].doc
          /\ argv \in SeqsUpTo(Inputs[i].tokens, MaxArgv) \cup Inputs[i].argvs
    /\ help \in BOOLEAN
    /\ options_first \in BOOLEAN
    /\ \/ /\ api = "docopt_parse"
          /\ version \in BOOLEAN
          /\ versionString = ""
          /\ pc = "create_pattern_tree"
       \/ /\ api = "docopt"
          /\ version = FALSE
          /\ versionString \in {"", "2.0"}
          /\ pc = "docopt"
    /\ nodes = <<>>
    /\ pattern = 0
    /\ options = <<>>
    /\ heap = <<>>
    /\ argv_patterns = <<>>
    /\ collected = <<>>
    /\ matched = FALSE
    /\ calls = <<>>
    /\ outcome = NoOutcome
    /\ process = Running

\* docopt() calls docopt_parse(doc, argv, help, !version.empty(), options_first)
Docopt ==
    /\ pc = "docopt"
    /\ version' = version_enabled(versionString)
    /\ pc' = "create_pattern_tree"
    /\ UNCHANGED << args, nodes, pattern, options, heap, argv_patterns,
                    collected, matched, calls, outcome, process >>

\* try { std::tie(pattern, options) = create_pattern_tree(doc); } catch ...
CreatePatternTree ==
    /\ pc = "create_pattern_tree"
    /\ LET size(usage) ==
               IF Thrown(usage.err) THEN 0
               ELSE Len(shortcut_options(doc, usage))
           created(t) ==
               IF Thrown(t.err)
               THEN /\ outcome' = Raised(rethrow(t.err, "DocoptLanguageError"))
                    /\ pc' = "thrown"
                    /\ UNCHANGED << nodes, pattern, options >>
               ELSE /\ nodes' = t.mem
                    /\ pattern' = t.pattern
                    /\ options' = t.options
                    /\ pc' = "parse_argv"
                    /\ UNCHANGED outcome
       IN \E order \in Orders(size(parse_usage(doc))) :
             created(create_pattern_tree(doc, order))
    /\ UNCHANGED << args, version, heap, argv_patterns, collected, matched,
                    calls, process >>

\* try { argv_patterns = parse_argv(Tokens(argv), options, options_first); }
\* catch ...
ParseArgv ==
    /\ pc = "parse_argv"
    /\ LET parsed(r) ==
               \* the catalog is grown in place, also when parse_argv throws
               /\ options' = r.options
               /\ IF Thrown(r.err)
                  THEN /\ outcome' = Raised(rethrow(r.err, "DocoptArgumentError"))
                       /\ pc' = "thrown"
                       /\ UNCHANGED << heap, argv_patterns >>
                  ELSE /\ heap' = r.mem
                       /\ argv_patterns' = r.ret
                       /\ pc' = "extras"
                       /\ UNCHANGED outcome
       IN parsed(parse_argv(Tokens(argv, TRUE), options, options_first))
    /\ UNCHANGED << args, version, nodes, pattern, collected, matched, calls,
                    process >>

\* extras(help, version, argv_patterns);
Extras ==
    /\ pc = "extras"
    /\ LET checked(e) ==
               IF Thrown(e)
               THEN outcome' = Raised(e) /\ pc' = "thrown"
               ELSE pc' = "fix" /\ UNCHANGED outcome
       IN checked(extras(help, version, argv_patterns, heap))
    /\ UNCHANGED << args, version, nodes, pattern, options, heap,
                    argv_patterns, collected, matched, calls, process >>

\* pattern.fix()
Fix ==
    /\ pc = "fix"
    /\ nodes' = fix(nodes, pattern)
    /\ pc' = "match"
    /\ UNCHANGED << args, version, pattern, options, heap, argv_patterns,
                    collected, matched, calls, outcome, process >>

\* bool matched = pattern.fix().match(argv_patterns, collected);
Match ==
    /\ pc = "match"
    /\ LET done(r) ==
               /\ matched' = r.ok
               /\ argv_patterns' = r.left
               /\ collected' = r.collected
               /\ heap' = r.heap
               /\ calls' = r.calls
               /\ IF Thrown(r.err)
                  THEN outcome' = Raised(r.err) /\ pc' = "thrown"
                  ELSE pc' = "result" /\ UNCHANGED outcome
       IN done(match(nodes, pattern, argv_patterns, <<>>, heap))
    /\ UNCHANGED << args, version, nodes, pattern, options, process >>

\* The end of docopt_parse: the map, or a DocoptArgumentError
Result ==
    /\ pc = "result"
    /\ IF accepted(matched, argv_patterns)
       THEN /\ outcome' = Returned(result_map(nodes, pattern, heap, collected))
            /\ pc' = "returned"
       ELSE /\ outcome' = Raised(Throw("DocoptArgumentError",
                 IF matched THEN "Unexpected argument: " \o join(argv, ", ")
                 ELSE "Arguments did not match expected patterns"))
            /\ pc' = "thrown"
    /\ UNCHANGED << args, version, nodes, pattern, options, heap,
                    argv_patterns, collected, matched, calls, process >>

\* A faulty variant of handler: an argument error exits with status 0.
handler_ArgumentOk(o, d, v) ==
    IF o.type = "map" THEN Running
    ELSE IF o.type \in {"DocoptExitHelp", "DocoptArgumentError"} THEN
        [state |-> "exited", status |-> 0, out |-> << d >>, err |-> <<>>]
    ELSE IF o.type = "DocoptExitVersion" THEN
        [state |-> "exited", status |-> 0, out |-> << v >>, err |-> <<>>]
    ELSE IF o.type = "DocoptLanguageError" THEN
        [state |-> "exited", status |-> -1, out |-> <<>>,
         err |-> << "Docopt usage string could not be parsed", o.what >>]
    ELSE [state |-> "terminated", status |-> 0, out |-> <<>>, err |-> <<>>]

\* The catch clauses of docopt(): what becomes of the process
handler(o, d, v) ==
    IF o.type = "map" THEN Running
    ELSE IF o.type = "DocoptExitHelp" THEN
        [state |-> "exited", status |-> 0, out |-> << d >>, err |-> <<>>]
    ELSE IF o.type = "DocoptExitVersion" THEN
        [state |-> "exited", status |-> 0, out |-> << v >>, err |-> <<>>]
    ELSE IF o.type = "DocoptLanguageError" THEN
        [state |-> "exited", status |-> -1, out |-> <<>>,
         err |-> << "Docopt usage string could not be parsed", o.what >>]
    ELSE IF o.type = "DocoptArgumentError" THEN
        [state |-> "exited", status |-> -1, out |-> << "", d >>,
         err |-> << o.what >>]
    ELSE \* any other exception is unexpected: std::terminate
        [state |-> "terminated", status |-> 0, out |-> <<>>, err |-> <<>>]

\* docopt(): return the map, or catch and exit
Handle ==
    /\ api = "docopt"
    /\ pc \in {"returned", "thrown"}
    /\ process' = handler(outcome, doc, versionString)
    /\ pc' = IF outcome.type = "map" THEN "docopt_returned" ELSE "exit"
    /\ UNCHANGED << args, version, nodes, pattern, options, heap,
                    argv_patterns, collected, matched, calls, outcome >>

Next ==
    \/ Docopt
    \/ CreatePatternTree
    \/ ParseArgv
    \/ Extras
    \/ Fix
    \/ Match
    \/ Result
    \/ Handle

Spec == Init /\ [][Next]_vars

(***************************************************************************)
(* Properties                                                              *)
(***************************************************************************)
\* docopt_parse has returned or thrown
Finished == outcome.type # "none"

\* The call of match() on the root pattern
RootCall == calls[Len(calls)]

\* What the caller of the match() call c holds after it is what it held
\* before: the two vectors, and the values of the leaves they point to.
FrameKept(c) ==
    /\ c.left2 = c.left
    /\ c.collected2 = c.collected
    /\ \A q \in Range(c.left) \cup Range(c.collected) :
           c.heap2[q].value = c.heap[q].value

\* C1: whenever match() of any pattern returns false, the caller's left and
\* collected are what they were before the call, the values of the leaves
\* in them included.
C1_FailedMatchKeepsFrame ==
    \A i \in 1..Len(calls) : ~calls[i].ok => FrameKept(calls[i])

\* C2: a map is returned only if the root matched and left nothing of argv;
\* when the root did not match or left something, DocoptArgumentError is
\* raised. (A match that an assertion cut short has returned nothing.)
C2_NoMapWithLeftover ==
    /\ outcome.type = "map" =>
           calls # <<>> /\ RootCall.ok /\ RootCall.left2 = <<>>
    /\ /\ Finished /\ calls # <<>> /\ ~Thrown(RootCall.err)
       /\ ~(RootCall.ok /\ RootCall.left2 = <<>>)
       => outcome.type = "DocoptArgumentError"

\* The root matched, argv patterns were left over and DocoptArgumentError
\* was raised.
C2_Witness ==
    /\ outcome.type = "DocoptArgumentError"
    /\ calls # <<>>
    /\ RootCall.ok
    /\ RootCall.left2 # <<>>

RECURSIVE Descendants(_, _)
Descendants(mem, p) ==
    {p} \cup UNION {Descendants(mem, c) : c \in Range(mem[p].fChildren)}

\* The leaves of the (normalized) root pattern
PatternLeaves == {q \in Descendants(nodes, pattern) : isLeaf(nodes[q])}

LeafNames == {nodes[q].name : q \in PatternLeaves}

\* C3: the key set of a returned map is exactly the set of the leaf names
\* of the normalized root pattern, and every collected leaf carries one of
\* these names.
C3_KeysAreLeafNames ==
    outcome.type = "map" =>
        /\ DOMAIN outcome.map = LeafNames
        /\ \A i \in 1..Len(collected) : heap[collected[i]].name \in LeafNames

\* A map was returned for an argv of which a positional was collected.
C3_Witness ==
    /\ outcome.type = "map"
    /\ \E i \in 1..Len(collected) : heap[collected[i]].type = "Argument"

\* No collected leaf has this name
Unmatched(name) == \A i \in 1..Len(collected) : heap[collected[i]].name # name

\* The defaults that the option descriptions of the doc declare for `name'
DeclaredDefault(name) ==
    {d.default : d \in {e \in Range(doc.options) :
                           e.hasDefault
                           /\ name \in Range(OptionPieces(e.spec, 1))}}

\* The default of pattern leaf n as C4 states it
StatedDefault(n) ==
    IF isLong(n.value) THEN VLong(0)
    ELSE IF isStringList(n.value) THEN VStringList(<<>>)
    ELSE IF n.type = "Option" /\ n.fArgcount # 0 THEN
        IF DeclaredDefault(n.name) = {} THEN VEmpty
        ELSE VString(CHOOSE d \in DeclaredDefault(n.name) : TRUE)
    ELSE IF n.type \in {"Option", "Command"} THEN VBool(FALSE)
    ELSE VEmpty

\* The same, but a list-valued option declared with [default: s] has the
\* whitespace-separated words of s.
ActualDefault(n) ==
    IF isStringList(n.value) /\ n.type = "Option"
       /\ DeclaredDefault(n.name) # {}
    THEN VStringList(split(CHOOSE d \in DeclaredDefault(n.name) : TRUE, 1))
    ELSE StatedDefault(n)

\* C4 as stated: in a returned map every leaf that argv did not match has
\* Int(0) if it is a counter, List([]) if it is list-valued, Str(s) if it
\* is a scalar option declared with [default: s], Bool(false) if it is a
\* no-argument option or a command, and Empty otherwise.
C4_UnmatchedHaveStatedDefault ==
    outcome.type = "map" =>
        \A q \in PatternLeaves :
            Unmatched(nodes[q].name) =>
                outcome.map[nodes[q].name] = StatedDefault(nodes[q])

\* C4, amended: the same, except that an unmatched list-valued option
\* declared with [default: s] has the list of the words of s.
C4_UnmatchedHaveDefault ==
    outcome.type = "map" =>
        \A q \in PatternLeaves :
            Unmatched(nodes[q].name) =>
                outcome.map[nodes[q].name] = ActualDefault(nodes[q])

\* A map was returned in which a list-valued option with a declared
\* default and an option with an argument and no default are unmatched.
C4_Witness ==
    /\ outcome.type = "map"
    /\ \E q \in PatternLeaves :
          /\ Unmatched(nodes[q].name)
          /\ isStringList(nodes[q].value)
          /\ DeclaredDefault(nodes[q].name) # {}
    /\ \E q \in PatternLeaves :
          /\ Unmatched(nodes[q].name)
          /\ nodes[q].type = "Option"
          /\ nodes[q].fArgcount # 0
          /\ DeclaredDefault(nodes[q].name) = {}

\* What the children k.. of the Either p give, each tried on (left, coll)
RECURSIVE Alternatives(_, _, _, _, _)
Alternatives(p, k, left, coll, hp) ==
    IF k > Len(nodes[p].fChildren) THEN <<>>
    ELSE LET r == match(nodes, nodes[p].fChildren[k], left, coll, hp)
         IN << r >> \o Alternatives(p, k + 1, left, coll, r.heap)

\* Alternative k matched, no alternative left less, and none before it left
\* as little.
Shortest(alts, k) ==
    /\ alts[k].ok
    /\ \A j \in 1..Len(alts) :
           alts[j].ok =>
               /\ Len(alts[k].left) <= Len(alts[j].left)
               /\ j < k => Len(alts[k].left) < Len(alts[j].left)

EitherCommits(c) ==
    LET alts == Alternatives(c.pattern, 1, c.left, c.collected, c.heap) IN
    IF \A k \in 1..Len(alts) : ~alts[k].ok
    THEN ~c.ok /\ c.left2 = c.left /\ c.collected2 = c.collected
    ELSE /\ c.ok
         /\ \E k \in 1..Len(alts) :
               /\ Shortest(alts, k)
               /\ c.left2 = alts[k].left
               /\ c.collected2 = alts[k].collected

\* C5: Either::match tries every alternative on the caller's (left,
\* collected); it fails if none matches, and otherwise hands back the left
\* and collected of the alternative that leaves the shortest left, the
\* first declared of those that do.
C5_EitherShortestFirst ==
    \A i \in 1..Len(calls) :
        nodes[calls[i].pattern].type = "Either" => EitherCommits(calls[i])

\* An Either was matched of which two alternatives left equally little,
\* with different collected.
C5_Witness ==
    \E i \in 1..Len(calls) :
        /\ nodes[calls[i].pattern].type = "Either"
        /\ calls[i].ok
        /\ LET c == calls[i]
               alts == Alternatives(c.pattern, 1, c.left, c.collected, c.heap)
           IN \E j, k \in 1..Len(alts) :
                 /\ j < k
                 /\ Shortest(alts, j)
                 /\ alts[k].ok
                 /\ Len(alts[k].left) = Len(alts[j].left)
                 /\ alts[k].collected # alts[j].collected

\* A token that parse_argv reads as a positional argument
IsPositional(token) == Char(token, 1) # "-" \/ token = "-"

\* A cluster of short options that the catalog has, none with an argument
ClusterOfFlags(token) ==
    /\ Len(token) > 2
    /\ Char(token, 1) = "-"
    /\ Char(token, 2) # "-"
    /\ \A i \in 2..Len(token) :
           \E k \in 1..Len(options) :
               /\ options[k].fShortOption = "-" \o Char(token, i)
               /\ options[k].fArgcount = 0

\* argv with the clusters of flags given as separate tokens, as far as argv
\* is read for options
RECURSIVE Unclustered(_, _)
Unclustered(a, first) ==
    IF a = <<>> THEN <<>>
    ELSE IF Head(a) = "--" \/ (first /\ IsPositional(Head(a))) THEN a
    ELSE (IF ClusterOfFlags(Head(a))
          THEN [i \in 1..(Len(Head(a)) - 1) |-> "-" \o Char(Head(a), i + 1)]
          ELSE << Head(a) >>)
             \o Unclustered(Tail(a), first)

\* What docopt_parse gives for the argv a, with the pattern, the catalog
\* and the flags of this state (the message of the error left aside)
OutcomeFor(a) ==
    LET r == parse_argv(Tokens(a, TRUE), options, options_first)
        e == extras(help, version, r.ret, r.mem)
        fixed == fix(nodes, pattern)
        m == match(fixed, pattern, r.ret, <<>>, r.mem)
    IN IF Thrown(r.err) THEN
           [type |-> rethrow(r.err, "DocoptArgumentError").type, map |-> <<>>]
       ELSE IF Thrown(e) THEN [type |-> e.type, map |-> <<>>]
       ELSE IF m.ok /\ m.left = <<>> THEN
           [type |-> "map",
            map |-> result_map(fixed, pattern, m.heap, m.collected)]
       ELSE [type |-> "DocoptArgumentError", map |-> <<>>]

\* C6: with a catalog of options without arguments, an argv with a cluster
\* of short options gives the same argv patterns, and then the same map or
\* the same kind of error, as the argv with the cluster's options given as
\* separate tokens.
C6_ClusterAsSeparate ==
    /\ \E i \in 1..Len(argv) : ClusterOfFlags(argv[i])
    /\ \A k \in 1..Len(options) : options[k].fArgcount = 0
    => LET separate == Unclustered(argv, options_first)
           r == parse_argv(Tokens(separate, TRUE), options, options_first)
       IN /\ pc = "extras" =>
                 [i \in 1..Len(argv_patterns) |-> heap[argv_patterns[i]]]
                     = [i \in 1..Len(r.ret) |-> r.mem[r.ret[i]]]
          /\ Finished =>
                 OutcomeFor(separate)
                     = [type |-> outcome.type, map |-> outcome.map]

\* A map was returned for an argv with a cluster of flags.
C6_Witness ==
    /\ outcome.type = "map"
    /\ \E i \in 1..Len(argv) : ClusterOfFlags(argv[i])
    /\ Unclustered(argv, options_first) # argv

\* The options of the catalog whose long name begins with the token
LongCandidates(token) ==
    SelectSeq(options, LAMBDA o : o.fLongOption # ""
                                  /\ starts_with(o.fLongOption, token))

\* argv begins with a long option without '='
FirstIsLong ==
    /\ argv # <<>>
    /\ starts_with(argv[1], "--")
    /\ argv[1] # "--"
    /\ find(argv[1], "=", 1) = 0

\* parse_argv makes the option o of the first token of argv, and does not
\* complain about the token.
ResolvesTo(o) ==
    /\ ~starts_with(outcome'.what, "'" \o argv[1] \o "'")
    /\ outcome'.type = "none" =>
           /\ heap'[argv_patterns'[1]].type = "Option"
           /\ heap'[argv_patterns'[1]].fLongOption = o.fLongOption

\* parse_argv fails on the first token of argv with the message that
\* lists the candidates.
Ambiguous(candidates) ==
    /\ outcome'.type = "DocoptArgumentError"
    /\ outcome'.what = "'" \o argv[1] \o "' is not a unique prefix: "
                           \o join([i \in 1..Len(candidates) |->
                                       candidates[i].fLongOption], ", ")

HelpObserved ==
    \E i \in 1..Len(argv_patterns) :
        /\ heap[argv_patterns[i]].type = "Option"
        /\ heap[argv_patterns[i]].name \in {"-h", "--help"}
        /\ hasContents(heap[argv_patterns[i]].value)

\* C8: DocoptExitHelp is raised exactly by the step that checks the parsed
\* argv, when help is true and the parsed argv has an option named -h or
\* --help with a value; never with help false, and never for a token that
\* became a positional.
C8_HelpExit ==
    [][(outcome.type # "DocoptExitHelp" /\ outcome'.type = "DocoptExitHelp")
          <=> (pc = "extras" /\ help /\ HelpObserved)]_vars

\* DocoptExitHelp was raised.
C8_Witness == outcome.type = "DocoptExitHelp" /\ "-h" \in Range(argv)

\* The parsed argv has an option named --version
VersionObserved ==
    \E i \in 1..Len(argv_patterns) :
        /\ heap[argv_patterns[i]].type = "Option"
        /\ heap[argv_patterns[i]].name = "--version"

\* C9: DocoptExitVersion is raised exactly when version is true, no help
\* exit applies and the parsed argv has an option named --version; docopt()
\* passes version as true exactly when its version string is not empty.
C9_VersionExit ==
    [][/\ (outcome.type # "DocoptExitVersion"
              /\ outcome'.type = "DocoptExitVersion")
          <=> (pc = "extras" /\ version /\ ~(help /\ HelpObserved)
                  /\ VersionObserved)
       /\ pc = "docopt" => version' = (versionString # "")]_vars

\* docopt(), called with a version string, has met --version.
C9_Witness ==
    /\ api = "docopt"
    /\ versionString # ""
    /\ outcome.type = "DocoptExitVersion"

\* C10: no OptionError leaves docopt_parse: one thrown while the pattern
\* tree is made from the doc comes out as DocoptLanguageError, one thrown
\* while argv is parsed as DocoptArgumentError, with the same message.
C10_OptionErrorRethrown ==
    [][/\ outcome'.type # "OptionError"
       /\ pc = "create_pattern_tree"
             /\ parse_usage(doc).err.type = "OptionError" =>
             outcome' = Raised(Throw("DocoptLanguageError",
                                     parse_usage(doc).err.what))
       /\ pc = "parse_argv"
             /\ parse_argv(Tokens(argv, TRUE), options,
                           options_first).err.type = "OptionError" =>
             outcome' = Raised(Throw("DocoptArgumentError",
                                     parse_argv(Tokens(argv, TRUE), options,
                                                options_first).err.what))]_vars

\* The usage of the doc made parse_long throw, and DocoptLanguageError
\* came out.
C10_Witness ==
    /\ outcome.type = "DocoptLanguageError"
    /\ parse_usage(doc).err.type = "OptionError"

\* The lines of the doc that open a usage: section: they hold the word in
\* one of its spellings and are not indented (no doc explored has an
\* indented line with the word in it).
UsageHeaders ==
    {i \in 1..Len(doc.lines) :
        /\ Char(doc.lines[i], 1) \notin {" ", "\t"}
        /\ \E w \in {"usage:", "Usage:", "USAGE:"} :
              \E k \in 1..(Len(doc.lines[i]) - Len(w) + 1) :
                  SubSeq(doc.lines[i], k, k + Len(w) - 1) = w}

NoUsageFound == "'usage:' (case-insensitive) not found."
ManyUsagesFound == "More than one 'usage:' (case-insensitive)."

\* C11: a doc with no usage: section, or with more than one, makes
\* docopt_parse throw DocoptLanguageError in its first step, before argv is
\* parsed; a doc with exactly one is not refused for this reason.
C11_OneUsageSection ==
    [][CreatePatternTree =>
          /\ Cardinality(UsageHeaders) = 0 =>
                 outcome' = Raised(Throw("DocoptLanguageError", NoUsageFound))
          /\ Cardinality(UsageHeaders) > 1 =>
                 outcome' = Raised(Throw("DocoptLanguageError", ManyUsagesFound))
          /\ Cardinality(UsageHeaders) = 1 =>
                 outcome'.what \notin {NoUsageFound, ManyUsagesFound}
          /\ Cardinality(UsageHeaders) # 1 =>
                 pc' = "thrown" /\ argv_patterns' = <<>> /\ heap' = <<>>]_vars

\* A doc with two usage: sections, spelled in different cases, was refused.
C11_Witness ==
    /\ Cardinality(UsageHeaders) = 2
    /\ \E i, j \in UsageHeaders :
          Char(doc.lines[i], 2) # Char(doc.lines[j], 2)
    /\ outcome = Raised(Throw("DocoptLanguageError", ManyUsagesFound))
    /\ pc = "thrown"

\* The brackets of a token sequence pair up: every '(' is closed by a ')'
\* and every '[' by a ']', in the right order.
RECURSIVE Pairs(_, _)
Pairs(tokens, open) ==
    IF tokens = <<>> THEN open = <<>>
    ELSE IF Head(tokens) \in {"(", "["}
    THEN Pairs(Tail(tokens), << Head(tokens) >> \o open)
    ELSE IF Head(tokens) \in {")", "]"}
    THEN /\ open # <<>>
         /\ Head(open) = (IF Head(tokens) = ")" THEN "(" ELSE "[")
         /\ Pairs(Tail(tokens), Tail(open))
    ELSE Pairs(Tail(tokens), open)

\* The doc has one usage: section, and its brackets do not pair up.
Malformed ==
    /\ Len(parse_section_usage(doc)) = 1
    /\ ~Pairs(from_pattern(parse_section_usage(doc)[1]).fTokens, <<>>)

\* C12: a usage text with a mismatched or unclosed '(' or '[', or with
\* tokens left over after the top-level expression, makes docopt_parse
\* throw DocoptLanguageError, and nothing else.
C12_MalformedIsLanguageError ==
    Malformed /\ pc \notin {"docopt", "create_pattern_tree"} =>
        outcome.type = "DocoptLanguageError"

\* C13: docopt() returns the map or ends the process: after DocoptExitHelp
\* it has printed the doc and exited with 0, after DocoptExitVersion it has
\* printed the version string and exited with 0, after DocoptLanguageError
\* it has exited with -1, after DocoptArgumentError it has printed the
\* message and the doc and exited with -1; the caller sees no Docopt*
\* exception.
C13_WrapperReturnsOrExits ==
    api = "docopt" /\ pc \in {"docopt_returned", "exit"} =>
        /\ pc = "docopt_returned" <=> outcome.type = "map"
        /\ outcome.type = "map" => process = Running
        /\ outcome.type # "map" => process.state \in {"exited", "terminated"}
        /\ outcome.type = "DocoptExitHelp" =>
               /\ process.state = "exited" /\ process.status = 0
               /\ process.out = << doc >>
        /\ outcome.type = "DocoptExitVersion" =>
               /\ process.state = "exited" /\ process.status = 0
               /\ process.out = << versionString >>
        /\ outcome.type = "DocoptLanguageError" =>
               /\ process.state = "exited" /\ process.status = -1
        /\ outcome.type = "DocoptArgumentError" =>
               /\ process.state = "exited" /\ process.status = -1
               /\ process.err = << outcome.what >>
               /\ process.out[Len(process.out)] = doc

\* docopt() caught a DocoptArgumentError and ended the process.
C13_Witness ==
    /\ api = "docopt"
    /\ pc = "exit"
    /\ outcome.type = "DocoptArgumentError"
    /\ process.state = "exited"
    /\ process.status = -1

\* The number of options that an [options] shortcut of the doc stands for
ShortcutSize ==
    LET size(usage) ==
            IF Thrown(usage.err) THEN 0
            ELSE Len(shortcut_options(doc, usage))
    IN size(parse_usage(doc))

\* C14: the outcome of docopt_parse (the map, or the kind of the error) is
\* a function of doc, argv and the flags: whatever the order in which the
\* children of an [options] shortcut are installed, a call gives what this
\* call gave.
C14_Deterministic ==
    pc \in {"returned", "thrown"} =>
        \A order \in Orders(ShortcutSize) :
            LET same(o) == o.type = outcome.type /\ o.map = outcome.map
            IN same(docopt_parse(doc, argv, help, version, options_first,
                                 order))

\* A map was returned for an argv that gave one of the two options of an
\* [options] shortcut whose children were installed in the other order.
C14_Witness ==
    /\ pc = "returned"
    /\ ShortcutSize = 2
    /\ collected # <<>>
    /\ \E p \in 1..Len(nodes) :
          /\ nodes[p].type = "OptionsShortcut"
          /\ nodes[nodes[p].fChildren[1]].name
                 = shortcut_options(doc, parse_usage(doc))[2].name
          /\ \E i \in 1..Len(collected) :
                 heap[collected[i]].name = nodes[nodes[p].fChildren[1]].name

\* The leaf p occurs two or more times in one of the expanded alternatives
\* of the usage (the groups that transform makes of the root's children).
Repeated(mem, p) ==
    \E g \in Range(transform(mem, mem[pattern].fChildren)) : count(g, p) >= 2

\* The value of a repeated leaf: a counter at 0, or a list (of the words of
\* the string it held before, if it held one).
PromotedValue(leaf, before) ==
    IF leaf.type = "Command" \/ (leaf.type = "Option" /\ leaf.fArgcount = 0)
    THEN leaf.value = VLong(0)
    ELSE /\ isStringList(leaf.value)
         /\ isString(before.value) => leaf.value.l = split(before.value.s, 1)
         /\ ~hasContents(before.value) => leaf.value.l = <<>>

\* C15: fix() gives every leaf that occurs two or more times in an expanded
\* alternative the value Int(0) if it is a Command or an Option without
\* argument, and a List if it is an Argument or an Option with an argument
\* (the words of its string default, if it has one); a leaf that occurs at
\* most once in every alternative keeps its scalar value.
C15_RepeatedLeavesPromoted ==
    [][Fix =>
          LET unified == fix_identities(nodes, pattern) IN
          \A p \in Range(leaves(unified, pattern)) :
              IF Repeated(unified, p)
              THEN PromotedValue(nodes'[p], unified[p])
              ELSE /\ nodes'[p].value = unified[p].value
                   /\ ~isLong(nodes'[p].value)
                   /\ ~isStringList(nodes'[p].value)]_vars

\* fix() is over for a usage with a repeated option that had a string
\* default and now has the list of its words, and with an option that is
\* not repeated and has kept its string default.
C15_Witness ==
    /\ pc = "match"
    /\ \E p \in PatternLeaves :
          /\ nodes[p].type = "Option"
          /\ Repeated(nodes, p)
          /\ nodes[p].value = VStringList(<< "a", "b" >>)
    /\ \E p \in PatternLeaves :
          /\ ~Repeated(nodes, p)
          /\ nodes[p].value = VString("10")

\* The nodes below the root
Below(mem) == Descendants(mem, pattern) \ {pattern}

\* Two subtrees are equal in kind, name, value and children.
RECURSIVE SameStructure(_, _, _)
SameStructure(mem, p, q) ==
    /\ mem[p].type = mem[q].type
    /\ mem[p].name = mem[q].name
    /\ mem[p].value = mem[q].value
    /\ Len(mem[p].fChildren) = Len(mem[q].fChildren)
    /\ \A k \in 1..Len(mem[p].fChildren) :
           SameStructure(mem, mem[p].fChildren[k], mem[q].fChildren[k])

\* Two subtrees are equal in everything: kind, name, value, the short name,
\* the long name and the argument count of an option, and children.
RECURSIVE SameNode(_, _, _)
SameNode(mem, p, q) ==
    /\ [mem[p] EXCEPT !.fChildren = <<>>] = [mem[q] EXCEPT !.fChildren = <<>>]
    /\ Len(mem[p].fChildren) = Len(mem[q].fChildren)
    /\ \A k \in 1..Len(mem[p].fChildren) :
           SameNode(mem, mem[p].fChildren[k], mem[q].fChildren[k])

\* The number of places below the root that hold node p
Occurrences(mem, p) ==
    Cardinality({s \in Descendants(mem, pattern) \X (1..Len(mem)) :
                    /\ s[2] <= Len(mem[s[1]].fChildren)
                    /\ mem[s[1]].fChildren[s[2]] = p})

\* C16 as stated: after fix, two subtrees below the root that are equal in
\* kind, name, value and children are one node.
C16_EqualStructureShared ==
    [][Fix => \A p, q \in Below(nodes') :
                  SameStructure(nodes', p, q) => p = q]_vars

\* C16, amended: after fix, two subtrees below the root that are equal in
\* kind, name, value, option names, argument count and children, or were so
\* before fix, are one node, so that the promotion of a value is seen at
\* every place the node occurs.
C16_EqualNodesShared ==
    [][Fix => \A p, q \in Below(nodes') :
                  SameNode(nodes, p, q) \/ SameNode(nodes', p, q) => p = q]_vars

\* fix() is over for a usage in which a leaf occurs at several places: they
\* hold one node, and its value is the promoted one.
C16_Witness ==
    /\ pc = "match"
    /\ \E p \in PatternLeaves :
          /\ Occurrences(nodes, p) >= 2
          /\ nodes[p].value = VLong(0)

\* The argv patterns that parse_argv makes of the tokens of argv from k on
\* when it takes them for positionals
Positionals(k) == [j \in 1..(Len(argv) - k + 1) |->
                      Argument("", VString(argv[k + j - 1]))]

\* The patterns (not the pointers) of a parsed argv
PatternsOf(mem, ret) == [j \in 1..Len(ret) |-> mem[ret[j]]]

\* C17: when parse_argv comes to a token that is exactly "--", that token
\* and every token after it become positional Arguments whose value is the
\* token, whether or not it starts with a hyphen, and the option catalog
\* is what it was when "--" was reached.
C17_DoubleDashEndsOptions ==
    [][ParseArgv =>
          \A k \in 1..Len(argv) :
              argv[k] = "--" /\ (\A j \in 1..(k - 1) : argv[j] # "--") =>
                  LET before == parse_argv(Tokens(SubSeq(argv, 1, k - 1), TRUE),
                                           options, options_first)
                  IN ~Thrown(before.err) =>
                         /\ pc' = "extras"
                         /\ options' = before.options
                         /\ PatternsOf(heap', argv_patterns')
                                = PatternsOf(before.mem, before.ret)
                                      \o Positionals(k)]_vars

\* argv was parsed, with an option before "--" and after it a token that
\* starts with a hyphen and is not the name of an option of the catalog.
C17_Witness ==
    /\ pc = "extras"
    /\ Len(argv) = 3
    /\ Char(argv[1], 1) = "-" /\ argv[1] # "--"
    /\ argv[2] = "--"
    /\ Char(argv[3], 1) = "-" /\ argv[3] # "--"
    /\ heap[argv_patterns[1]].type = "Option"
    /\ heap[argv_patterns[Len(argv_patterns)]] = Argument("", VString(argv[3]))
    /\ \A i \in 1..Len(options) :
           ~starts_with(options[i].fLongOption, argv[3])

\* The token reads as an option: it starts with a hyphen and is neither
\* "-" nor "--".
OptionLike(token) == Char(token, 1) = "-" /\ token \notin {"-", "--"}

\* Token k is the first positional of argv: the tokens before it are
\* options (with their arguments) that parse without error.
FirstPositional(k) ==
    LET before == parse_argv(Tokens(SubSeq(argv, 1, k - 1), TRUE), options,
                             options_first)
    IN /\ ~OptionLike(argv[k]) /\ argv[k] # "--"
       /\ ~Thrown(before.err)
       /\ \A j \in 1..Len(before.ret) : before.mem[before.ret[j]].type = "Option"

\* C18: with options_first the first positional token of argv and every
\* token after it become positional Arguments, whatever they start with,
\* and the catalog stays as it was; without options_first the tokens after
\* a positional are parsed as the tokens before it (an option stays an
\* option).
C18_OptionsFirstFreezes ==
    [][ParseArgv =>
          \A k \in 1..Len(argv) :
              FirstPositional(k) =>
                  LET before == parse_argv(Tokens(SubSeq(argv, 1, k - 1), TRUE),
                                           options, options_first)
                      after == parse_argv(Tokens(SubSeq(argv, k + 1, Len(argv)),
                                                 TRUE),
                                          before.options, FALSE)
                  IN IF options_first
                     THEN /\ pc' = "extras"
                          /\ options' = before.options
                          /\ PatternsOf(heap', argv_patterns')
                                 = PatternsOf(before.mem, before.ret)
                                       \o Positionals(k)
                     ELSE /\ pc' = "extras" <=> ~Thrown(after.err)
                          /\ pc' = "extras" =>
                               /\ PatternsOf(heap', argv_patterns')
                                      = PatternsOf(before.mem, before.ret)
                                          \o << Argument("", VString(argv[k])) >>
                                          \o PatternsOf(after.mem, after.ret)
                               /\ k < Len(argv) /\ OptionLike(argv[k + 1]) =>
                                      heap'[argv_patterns'[Len(before.ret) + 2]].type
                                          = "Option"]_vars

\* argv was parsed with options_first; it has an option, then a
\* positional, then a token that starts with a hyphen, which has become an
\* Argument.
C18_Witness ==
    /\ pc = "extras"
    /\ options_first
    /\ Len(argv) = 3
    /\ OptionLike(argv[1])
    /\ ~OptionLike(argv[2]) /\ argv[2] # "--"
    /\ OptionLike(argv[3])
    /\ heap[argv_patterns[1]].type = "Option"
    /\ heap[argv_patterns[Len(argv_patterns)]] = Argument("", VString(argv[3]))

\* C19: a positional that is repeated in one alternative of the usage has a
\* list in every returned map; with the Naval Fate usage, an argv matched
\* through "ship <name> move <x> <y>" gives <name> the list of the one
\* token captured, and an argv matched through "ship new <name>..." the
\* list of all the tokens captured, in the order of argv.
C19_RepeatedPositionalIsList ==
    outcome.type = "map" =>
        /\ \A q \in PatternLeaves :
               nodes[q].type = "Argument" /\ Repeated(nodes, q) =>
                   isStringList(outcome.map[nodes[q].name])
        /\ doc = DocNaval =>
               outcome.map["<name>"] =
                   IF outcome.map["new"] = VBool(TRUE)
                   THEN VStringList(SubSeq(argv, 3, Len(argv)))
                   ELSE VStringList(<< argv[2] >>)

\* The Naval Fate usage has given <name> = ["Berlin"] for
\* ship Berlin move 1 2 --speed=5.
C19_Witness ==
    /\ doc = DocNaval
    /\ argv = << "ship", "Berlin", "move", "1", "2", "--speed=5" >>
    /\ outcome.type = "map"
    /\ outcome.map["<name>"] = VStringList(<< "Berlin" >>)
    /\ outcome.map["move"] = VBool(TRUE)

\* The number of the patterns of argv that stand for the option or the
\* command of a leaf of the usage
ArgvOccurrences(leaf) ==
    LET among(r) ==
            Cardinality({j \in 1..Len(r.ret) :
                IF leaf.type = "Option"
                THEN /\ r.mem[r.ret[j]].type = "Option"
                     /\ r.mem[r.ret[j]].name = leaf.name
                ELSE /\ r.mem[r.ret[j]].type = "Argument"
                     /\ r.mem[r.ret[j]].value = VString(leaf.name)})
    IN among(parse_argv(Tokens(argv, TRUE), options, options_first))

\* C20: after a successful parse, the counter that the map gives for a
\* leaf whose declared value is Int equals the number of the occurrences
\* of that option or command in argv.
C20_CounterEqualsOccurrences ==
    outcome.type = "map" =>
        \A q \in PatternLeaves :
            isLong(nodes[q].value) =>
                outcome.map[nodes[q].name] = VLong(ArgvOccurrences(nodes[q]))

\* The values that the patterns of argv hold for a leaf of the usage, in
\* the order of argv: those of the options of its name, or those of the
\* positionals
ArgvValues(leaf) ==
    LET forLeaf(a) == IF leaf.type = "Option"
                      THEN a.type = "Option" /\ a.name = leaf.name
                      ELSE a.type = "Argument"
        values(ps) == [j \in 1..Len(ps) |-> ps[j].value.s]
        among(r) == values(SelectSeq(PatternsOf(r.mem, r.ret), forLeaf))
    IN among(parse_argv(Tokens(argv, TRUE), options, options_first))

\* s can be had from t by leaving elements out
RECURSIVE IsSubsequence(_, _)
IsSubsequence(s, t) ==
    IF s = <<>> THEN TRUE
    ELSE IF t = <<>> THEN FALSE
    ELSE IF Head(s) = Head(t) THEN IsSubsequence(Tail(s), Tail(t))
    ELSE IsSubsequence(s, Tail(t))

\* C21: after a successful parse, the list that the map gives for a leaf
\* whose declared value is List holds argv values in argv order, each
\* consumed value once: for an option all the values given under its name,
\* for a positional values picked from the positionals of argv, no
\* position twice.
C21_ListHoldsConsumedValues ==
    outcome.type = "map" =>
        \A q \in PatternLeaves :
            isStringList(nodes[q].value) /\ nodes[q].type # "Command" =>
                IF nodes[q].type = "Option"
                THEN \/ ArgvValues(nodes[q]) = <<>>
                     \/ outcome.map[nodes[q].name] =
                            VStringList(ArgvValues(nodes[q]))
                ELSE IsSubsequence(outcome.map[nodes[q].name].l,
                                   ArgvValues(nodes[q]))

\* The child of a OneOrMore, matched again and again on what the round
\* before left, until it fails or a round leaves left unchanged, for at
\* most fuel rounds: what is left then, and the number of rounds that
\* matched. done says that the repetition has come to its end.
RECURSIVE Repeat(_, _, _, _, _)
Repeat(child, left, coll, hp, fuel) ==
    LET round(r) ==
            IF ~r.ok \/ r.left = left THEN
                [done |-> TRUE, times |-> IF r.ok THEN 1 ELSE 0,
                 left |-> r.left, collected |-> r.collected, heap |-> r.heap]
            ELSE IF fuel = 0 THEN
                [done |-> FALSE, times |-> 1,
                 left |-> r.left, collected |-> r.collected, heap |-> r.heap]
            ELSE LET counted(s) == [s EXCEPT !.times = @ + 1]
                 IN counted(Repeat(child, r.left, r.collected, r.heap, fuel - 1))
    IN round(match(nodes, child, left, coll, hp))

\* The match() call c of a OneOrMore came to its end within Len(left) + 1
\* rounds, matched iff a round matched, and handed back what the rounds
\* left (on failure, the caller's left and collected).
OneOrMoreRepeats(c) ==
    LET agrees(s) ==
            /\ s.done
            /\ (c.ok <=> (s.times >= 1))
            /\ c.heap2 = s.heap
            /\ IF c.ok
               THEN c.left2 = s.left /\ c.collected2 = s.collected
               ELSE c.left2 = c.left /\ c.collected2 = c.collected
    IN agrees(Repeat(nodes[c.pattern].fChildren[1], c.left, c.collected,
                     c.heap, Len(c.left)))

\* C22: every match() call of a OneOrMore ends, after at most as many
\* rounds as left has elements and one more; it has repeated the child
\* until the child failed or a round left left unchanged, and it matched
\* iff the child matched at least once.
C22_OneOrMoreTerminates ==
    \A i \in 1..Len(calls) :
        /\ nodes[calls[i].pattern].type = "OneOrMore"
        /\ ~Thrown(calls[i].err)
        => OneOrMoreRepeats(calls[i])

\* A OneOrMore of an Optional has matched: its child consumed two elements
\* of left in two rounds and then matched without consuming anything.
C22_Witness ==
    \E i \in 1..Len(calls) :
        /\ nodes[calls[i].pattern].type = "OneOrMore"
        /\ nodes[nodes[calls[i].pattern].fChildren[1]].type = "Optional"
        /\ calls[i].ok
        /\ Len(calls[i].left) = 3
        /\ Len(calls[i].left2) = 1

\* C23: every OneOrMore node of the tree that the usage parser has built
\* has exactly one child.
C23_OneOrMoreHasOneChild ==
    pattern # 0 =>
        \A p \in Descendants(nodes, pattern) :
            nodes[p].type = "OneOrMore" => Len(nodes[p].fChildren) = 1

\* The positions of left that hold a positional of argv
PositionalsAt(c) == {j \in 1..Len(c.left) : isArgument(c.heap[c.left[j]])}

\* The positions of left that hold a positional whose value is the name of
\* the leaf of the call c
NamedAt(c) ==
    {j \in PositionalsAt(c) :
        c.heap[c.left[j]].value = VString(nodes[c.pattern].name)}

\* The calls of match() on a Command leaf
CommandCalls ==
    {i \in 1..Len(calls) : nodes[calls[i].pattern].type = "Command"}

\* The call c took the positional at position k out of left and has the
\* command in collected, with true or with a counter.
CommandHit(c, k) ==
    /\ c.ok
    /\ c.left2 = erase(c.left, k)
    /\ \E q \in Range(c.collected2) :
          /\ c.heap2[q].type = "Command"
          /\ c.heap2[q].name = nodes[c.pattern].name
          /\ \/ c.heap2[q].value = VBool(TRUE)
             \/ isLong(c.heap2[q].value) /\ c.heap2[q].value.n >= 1

\* C24 as stated: a Command leaf matches whenever left holds a positional
\* equal to its name, taking the first such one, and fails only when left
\* holds none.
C24_CommandMatchesAnyPositional ==
    \A i \in CommandCalls :
        LET hit(c) ==
                IF NamedAt(c) = {} THEN ~c.ok
                ELSE \E k \in NamedAt(c) :
                        /\ \A j \in NamedAt(c) : k <= j
                        /\ CommandHit(c, k)
        IN hit(calls[i])

\* C24, amended: a Command leaf looks at the first positional of left only
\* (options before it are passed over): it matches iff that positional
\* equals its name, and fails when left holds no positional or when the
\* first one is something else, whatever comes after it.
C24_CommandMatchesFirstPositional ==
    \A i \in CommandCalls :
        LET hit(c) ==
                IF PositionalsAt(c) = {} THEN ~c.ok
                ELSE \E k \in PositionalsAt(c) :
                        /\ \A j \in PositionalsAt(c) : k <= j
                        /\ IF k \in NamedAt(c) THEN CommandHit(c, k)
                           ELSE ~c.ok
        IN hit(calls[i])

\* A Command leaf has failed on a left whose first positional is something
\* else and which holds its name further on; another has matched behind an
\* option.
C24_Witness ==
    /\ \E i \in CommandCalls :
          ~calls[i].ok /\ NamedAt(calls[i]) # {}
    /\ \E i \in CommandCalls :
          /\ calls[i].ok
          /\ ~isArgument(calls[i].heap[calls[i].left[1]])

\* The options of the catalog that take an argument and that the token
\* names in full, by their long or by their short name
TakingArgument(token) ==
    {i \in 1..Len(options) :
        /\ options[i].fArgcount # 0
        /\ token \in {options[i].fLongOption, options[i].fShortOption}}

\* The token is the name of one option that takes an argument, with no
\* argument attached.
Unattached(token) == token # "" /\ Cardinality(TakingArgument(token)) = 1

\* The one token that attaches the value to the option: --opt=VAL or -oVAL
Attached(token, val) ==
    IF starts_with(token, "--") THEN token \o "=" \o val ELSE token \o val

\* What parse_argv makes of the tokens a with the catalog as it is: the
\* exception, and the patterns
ArgvParse(a) ==
    LET seen(r) == [err |-> r.err, patterns |-> PatternsOf(r.mem, r.ret)]
    IN seen(parse_argv(Tokens(a, TRUE), options, options_first))

\* C25: when argv starts with an option that takes an argument and has
\* none attached, parse_argv raises an OptionError for it if argv ends
\* there or goes on with "--"; otherwise the next token is the value, the
\* rest of argv is parsed as it would be on its own, and the outcome is
\* that of the argv with the value attached to the option.
C25_NextTokenIsTheValue ==
    [][ParseArgv /\ argv # <<>> /\ Unattached(Head(argv)) =>
          LET o == options[CHOOSE i \in TakingArgument(Head(argv)) : TRUE]
              given == ArgvParse(argv)
          IN IF Len(argv) = 1 \/ argv[2] = "--"
             THEN /\ given.err.type = "OptionError"
                  /\ outcome'.type = "DocoptArgumentError"
             ELSE LET val == argv[2]
                      rest == ArgvParse(SubSeq(argv, 3, Len(argv)))
                      attached == ArgvParse(<< Attached(Head(argv), val) >>
                                            \o SubSeq(argv, 3, Len(argv)))
                  IN /\ given.err = rest.err
                     /\ ~Thrown(given.err) =>
                            given.patterns =
                                << [o EXCEPT !.value = VString(val)] >>
                                    \o rest.patterns
                     /\ Attached(Head(argv), val) # Head(argv) =>
                            given = attached]_vars

\* The [options] placeholders of the tree, the leaves under them, and the
\* options that the usage itself spells out
Shortcuts ==
    {s \in Descendants(nodes, pattern) : nodes[s].type = "OptionsShortcut"}
UnderShortcut == UNION {Range(nodes[s].fChildren) : s \in Shortcuts}
ExplicitOptions ==
    {q \in Descendants(nodes, pattern) \ UnderShortcut :
        nodes[q].type = "Option"}

\* Two records of one option: the same short and the same long name
SameOption(a, b) ==
    a.fShortOption = b.fShortOption /\ a.fLongOption = b.fLongOption

\* The descriptors of the options section that the usage does not spell out
NotInUsage ==
    {d \in Range(parse_defaults(doc)) :
        \A q \in ExplicitOptions : ~SameOption(nodes[q], d)}

\* C26: once the tree is built, the children of every [options]
\* placeholder are copies of the descriptors of the options section that
\* do not occur in the usage, one copy of each; no option of the usage is
\* among them, and every descriptor is in the usage or under the shortcut.
C26_ShortcutIsTheRest ==
    pc \in {"parse_argv", "extras", "fix"} =>
        \A s \in Shortcuts :
            LET kids == nodes[s].fChildren IN
            /\ {nodes[kids[i]] : i \in 1..Len(kids)} = NotInUsage
            /\ \A i, j \in 1..Len(kids) :
                   SameOption(nodes[kids[i]], nodes[kids[j]]) => i = j
            /\ \A i \in 1..Len(kids) : \A q \in ExplicitOptions :
                   ~SameOption(nodes[kids[i]], nodes[q])
            /\ \A d \in Range(parse_defaults(doc)) :
                   \/ \E q \in ExplicitOptions : SameOption(nodes[q], d)
                   \/ \E i \in 1..Len(kids) : nodes[kids[i]] = d

\* A tree is built whose [options] placeholder stands for two options of
\* the options section, while a third one is spelled out in the usage.
C26_Witness ==
    /\ pc = "parse_argv"
    /\ \E s \in Shortcuts : Len(nodes[s].fChildren) = 2
    /\ \E q \in ExplicitOptions :
          \E d \in Range(parse_defaults(doc)) : SameOption(nodes[q], d)

\* How often each leaf of L occurs in a list of patterns
Tally(L, list) ==
    [l \in L |-> Cardinality({i \in 1..Len(list) : list[i] = l})]

\* The tallies that the expansion of a pattern gives, written from the
\* rule: a leaf is itself, an Either is any one of its alternatives, a
\* OneOrMore is its children twice over, any other branch is its children.
RECURSIVE Expansions(_, _, _)
RECURSIVE ExpansionsOfAll(_, _, _)
Expansions(mem, L, p) ==
    IF isLeaf(mem[p]) THEN {Tally(L, << p >>)}
    ELSE IF mem[p].type = "Either"
    THEN UNION {Expansions(mem, L, mem[p].fChildren[k]) :
                   k \in 1..Len(mem[p].fChildren)}
    ELSE IF mem[p].type = "OneOrMore"
    THEN ExpansionsOfAll(mem, L, mem[p].fChildren \o mem[p].fChildren)
    ELSE ExpansionsOfAll(mem, L, mem[p].fChildren)

ExpansionsOfAll(mem, L, list) ==
    IF list = <<>> THEN {Tally(L, <<>>)}
    ELSE {[l \in L |-> x[l] + y[l]] :
             x \in Expansions(mem, L, Head(list)),
             y \in ExpansionsOfAll(mem, L, Tail(list))}

\* The alternatives of the usage: the children of the Either right under
\* the root, or the root itself when the usage has one alternative.
TopAlternatives(mem, p) ==
    LET c == mem[p].fChildren IN
    IF Len(c) = 1 /\ mem[c[1]].type = "Either"
    THEN Range(mem[c[1]].fChildren) ELSE {p}

\* The lists that transform returns for the tree mem under p are flat, are
\* the expansions of the tree, and each is an expansion of one alternative.
TransformExpands(mem, p) ==
    LET L == Range(leaves(mem, p))
        flat(result) ==
            /\ result # <<>>
            /\ \A i \in 1..Len(result) :
                  /\ \A j \in 1..Len(result[i]) : isLeaf(mem[result[i][j]])
                  /\ \E a \in TopAlternatives(mem, p) :
                        Tally(L, result[i]) \in Expansions(mem, L, a)
            /\ {Tally(L, result[i]) : i \in 1..Len(result)}
                   = Expansions(mem, L, p)
    IN flat(transform(mem, mem[p].fChildren))

\* C27: when fix starts, transform of the tree (with equal nodes shared)
\* comes to its end and returns flat lists of leaves only: one list per
\* choice of an alternative in every Either, the children of a OneOrMore
\* twice, the children of every other branch once; each list is drawn from
\* one top-level alternative of the usage.
C27_TransformFlattens ==
    pc = "fix" => TransformExpands(fix_identities(nodes, pattern), pattern)

\* fix starts on a usage of several alternatives, one of which holds a
\* OneOrMore.
C27_Witness ==
    /\ pc = "fix"
    /\ Cardinality(TopAlternatives(nodes, pattern)) >= 2
    /\ \E p \in Descendants(nodes, pattern) : nodes[p].type = "OneOrMore"

\* The catalog `after' is the catalog `before' with entries added at its
\* end: nothing removed, nothing changed.
OnlyGrown(before, after) ==
    /\ Len(before) <= Len(after)
    /\ SubSeq(after, 1, Len(before)) = before

\* The entry that an option token the catalog does not know leaves in it:
\* for a long, no short name and one argument iff the token has an '=';
\* for a letter of a cluster of shorts, no long name and no argument.
EntriesOf(token) ==
    IF starts_with(token, "--") THEN
        {Option("", partition(token, "=")[1],
                IF partition(token, "=")[2] = "" THEN 0 ELSE 1, VBool(FALSE))}
    ELSE IF starts_with(token, "-") THEN
        {Option("-" \o Char(token, i), "", 0, VBool(FALSE)) :
            i \in 2..Len(token)}
    ELSE {}

\* Every entry added to the catalog is the entry of one of the tokens.
AddedFrom(before, after, tokens) ==
    \A k \in (Len(before) + 1)..Len(after) :
        \E t \in Range(tokens) : after[k] \in EntriesOf(t)

\* Every option among the patterns has an entry of its short and long name
\* in the catalog.
AllInCatalog(patterns, catalog) ==
    \A q \in Range(patterns) :
        q.type = "Option" =>
            \E k \in 1..Len(catalog) : SameOption(catalog[k], q)

\* The tokens of the usage
UsageTokens == from_pattern(formal_usage(parse_section_usage(doc)[1])).fTokens

\* C28: the catalog starts as the options section; parsing the usage and
\* then argv only adds entries at its end, each the entry of an unknown
\* long (argcount 1 iff '=' was present) or of an unknown short (argcount
\* 0), and every option that the usage tree or the argv patterns hold has
\* an entry of the same short and long name.
C28_CatalogOnlyGrows ==
    [][/\ CreatePatternTree /\ pc' = "parse_argv" =>
              /\ OnlyGrown(parse_defaults(doc), options')
              /\ AddedFrom(parse_defaults(doc), options', UsageTokens)
              /\ AllInCatalog(PatternsOf(nodes', leaves(nodes', pattern')),
                              options')
       /\ ParseArgv =>
              /\ OnlyGrown(options, options')
              /\ AddedFrom(options, options', argv)
              /\ pc' = "extras" =>
                     AllInCatalog(PatternsOf(heap', argv_patterns'), options')
      ]_vars

\* argv has been parsed and has added a long with an argument and a short
\* to the catalog.
C28_Witness ==
    /\ pc = "extras"
    /\ Len(parse_defaults(doc)) < Len(options)
    /\ \E k \in 1..Len(options) :
          options[k] = Option("", "--new", 1, VBool(FALSE))
    /\ \E k \in 1..Len(options) :
          options[k] = Option("-z", "", 0, VBool(FALSE))

\* argv held an option token that neither the options section nor the
\* usage declares: parsing it has added an entry to the catalog that the
\* usage had left.
UndeclaredSeen ==
    /\ pattern # 0
    /\ Len(options) > Len(parse_usage(doc).options)

\* C29: a call whose argv holds an option that the doc does not declare
\* never returns a map: it raises DocoptArgumentError, unless the help or
\* the version exit comes first.
C29_UndeclaredNeverReturns ==
    Finished /\ UndeclaredSeen =>
        /\ outcome.type \in {"DocoptArgumentError", "DocoptExitHelp",
                             "DocoptExitVersion"}
        /\ ~help /\ ~version => outcome.type = "DocoptArgumentError"

\* The usage has matched an argv, all but an option that the doc does not
\* declare, and DocoptArgumentError was raised for what is left.
C29_Witness ==
    /\ UndeclaredSeen
    /\ matched
    /\ argv_patterns # <<>>
    /\ outcome.type = "DocoptArgumentError"

\* The phases of docopt_parse in their order; an exception ends the call
\* from any of them, and docopt() takes over where docopt_parse ends.
PhaseOrder ==
    {<< "docopt", "create_pattern_tree" >>,
     << "create_pattern_tree", "parse_argv" >>,
     << "parse_argv", "extras" >>, << "extras", "fix" >>,
     << "fix", "match" >>, << "match", "result" >>,
     << "result", "returned" >>,
     << "returned", "docopt_returned" >>, << "thrown", "exit" >>} \cup
    {<< p, "thrown" >> : p \in {"create_pattern_tree", "parse_argv",
                               "extras", "match", "result"}}

\* C30: docopt_parse goes through its phases in one order. An error of
\* the doc is raised by the first phase, with nothing of argv parsed; an
\* error of an argv token is raised as DocoptArgumentError by the second,
\* whatever help and version say; the third raises the help exit if it
\* applies, else the version exit if that applies, and nothing has been
\* matched by then; errors of the match come last.
C30_PhasesInOrder ==
    [][/\ pc' # pc => << pc, pc' >> \in PhaseOrder
       /\ pc = "create_pattern_tree" /\ Thrown(parse_usage(doc).err) =>
              /\ pc' = "thrown"
              /\ outcome'.type = parse_usage(doc).err.type
                    \/ /\ parse_usage(doc).err.type = "OptionError"
                       /\ outcome'.type = "DocoptLanguageError"
              /\ heap' = <<>> /\ argv_patterns' = <<>>
       /\ outcome.type = "none" /\ outcome'.type = "DocoptLanguageError" =>
              pc = "create_pattern_tree"
       /\ pc = "parse_argv"
             /\ Thrown(parse_argv(Tokens(argv, TRUE), options,
                                  options_first).err) =>
              pc' = "thrown" /\ outcome'.type = "DocoptArgumentError"
       /\ pc = "extras" /\ help /\ HelpObserved =>
              /\ pc' = "thrown" /\ outcome'.type = "DocoptExitHelp"
              /\ calls' = <<>> /\ collected' = <<>>
       /\ pc = "extras" /\ ~(help /\ HelpObserved)
             /\ version /\ VersionObserved =>
              /\ pc' = "thrown" /\ outcome'.type = "DocoptExitVersion"
              /\ calls' = <<>> /\ collected' = <<>>
       /\ /\ outcome.type = "none"
          /\ outcome'.type = "DocoptArgumentError"
          /\ pc # "parse_argv"
          => pc = "result" /\ ~(help /\ HelpObserved)
      ]_vars

\* The help exit was raised for an argv that also asks for the version,
\* with both enabled, and that matches no alternative of the usage.
C30_Witness ==
    /\ outcome.type = "DocoptExitHelp"
    /\ version /\ VersionObserved
    /\ LET refused(r) == ~accepted(r.ok, r.left)
       IN refused(match(fix(nodes, pattern), pattern, argv_patterns, <<>>,
                        heap))

=============================================================================
